---- MODULE Spec2Model ----
(***************************************************************************)
(* OneSite code generator (onesite/generator.py): the model-introspection  *)
(* and code-generation pipeline generate_code, with get_model_fields,      *)
(* generate_file, update_api_router and generate_locale_files.             *)
(*                                                                         *)
(* Python strings the code computes on (field names, entity names, type    *)
(* texts, permission strings, labels) are sequences of one-character       *)
(* strings, so that endswith, capitalize, lower, title, replace and the    *)
(* substring test are computed as Python computes them.  Python dicts are  *)
(* functions on their keys; dict.get is Get.                               *)
(***************************************************************************)
EXTENDS Integers, Sequences, FiniteSets, TLC

VARIABLES
    project,        \* the declarations under backend/app/models, in glob order
    env,            \* the project directory a run starts in: whether backend/
                    \* exists, and the paths a write to which fails
    pc,             \* position of generate_code
    idx,            \* index of the loop the current phase is in
    found_models,   \* generate_code's list of entity descriptors
    fs,             \* the generated files: path -> content
    fs_prev,        \* the generated files as the previous run left them
    rendered,       \* the generate_file calls of the current run, in order
    log,            \* modules whose load error the current run printed
    run             \* number of the current run of generate_code

vars == <<project, env, pc, idx, found_models, fs, fs_prev, rendered, log, run>>

-----------------------------------------------------------------------------
(* Bounds of the model *)

MaxModules == 3     \* modules of a project drawn from ModulePool
MaxFields == 3      \* declared fields of a class drawn from FieldPool
MaxRuns == 2        \* successive runs of generate_code
MaxTypedFields == 2 \* declared fields of a class drawn from TypedFieldPool

-----------------------------------------------------------------------------
(* Python values *)

EmptyDict == <<>>
PydanticUndefined == [PydanticUndefined |-> TRUE]
NoneValue == [None |-> TRUE]

IsUndefined(x) == "PydanticUndefined" \in DOMAIN x
IsNone(x) == "None" \in DOMAIN x

\* truth value of a dict-or-None: None and the empty dict are false
Truthy(x) == ~IsNone(x) /\ DOMAIN x # {}

\* dict.get(key, default)
Get(d, key, default) == IF key \in DOMAIN d THEN d[key] ELSE default

\* d[key] = value on a dict that may lack the key
Put(d, key, value) == (key :> value) @@ d

-----------------------------------------------------------------------------
(* Python str methods, on sequences of characters *)

LowerLetters ==
    <<"a","b","c","d","e","f","g","h","i","j","k","l","m",
      "n","o","p","q","r","s","t","u","v","w","x","y","z">>
UpperLetters ==
    <<"A","B","C","D","E","F","G","H","I","J","K","L","M",
      "N","O","P","Q","R","S","T","U","V","W","X","Y","Z">>

IsLower(c) == \E i \in DOMAIN LowerLetters : LowerLetters[i] = c
IsUpper(c) == \E i \in DOMAIN UpperLetters : UpperLetters[i] = c
IsAlpha(c) == IsLower(c) \/ IsUpper(c)

upper_char(c) ==
    IF IsLower(c)
    THEN UpperLetters[CHOOSE i \in DOMAIN LowerLetters : LowerLetters[i] = c]
    ELSE c
lower_char(c) ==
    IF IsUpper(c)
    THEN LowerLetters[CHOOSE i \in DOMAIN UpperLetters : UpperLetters[i] = c]
    ELSE c

\* s.lower()
RECURSIVE lower(_)
lower(s) == IF s = <<>> THEN <<>> ELSE <<lower_char(Head(s))>> \o lower(Tail(s))

\* s.capitalize(): first character upper-cased, the rest lower-cased
capitalize(s) == IF s = <<>> THEN <<>> ELSE <<upper_char(Head(s))>> \o lower(Tail(s))

\* s.endswith(suffix)
endswith(s, suffix) ==
    /\ Len(s) >= Len(suffix)
    /\ SubSeq(s, Len(s) - Len(suffix) + 1, Len(s)) = suffix

\* sub in s
contains(s, sub) ==
    \E i \in 1..(Len(s) - Len(sub) + 1) : SubSeq(s, i, i + Len(sub) - 1) = sub

\* s.replace(old, new) for one-character old and new
RECURSIVE replace(_, _, _)
replace(s, old, new) ==
    IF s = <<>> THEN <<>>
    ELSE <<IF Head(s) = old THEN new ELSE Head(s)>> \o replace(Tail(s), old, new)

\* s.title(): a scan that upper-cases a letter that follows a non-letter (or
\* starts the string) and lower-cases a letter that follows a letter
RECURSIVE title_scan(_, _)
title_scan(s, previous_is_cased) ==
    IF s = <<>> THEN <<>>
    ELSE LET c == Head(s)
         IN <<IF IsAlpha(c)
              THEN (IF previous_is_cased THEN lower_char(c) ELSE upper_char(c))
              ELSE c>> \o title_scan(Tail(s), IsAlpha(c))
title(s) == title_scan(s, FALSE)

\* next(i for i in range(len(seq)) if P(seq[i])), 0 when there is none
FirstIndex(seq, P(_)) ==
    IF \E i \in DOMAIN seq : P(seq[i])
    THEN CHOOSE i \in DOMAIN seq : P(seq[i]) /\ \A j \in 1..(i - 1) : ~P(seq[j])
    ELSE 0

\* the positions i of seq with P(seq[i]), in order
Positions(seq, P(_)) ==
    SelectSeq([i \in 1..Len(seq) |-> i], LAMBDA i : P(seq[i]))

-----------------------------------------------------------------------------
(* String literals of generator.py *)

s_id == <<"i","d">>
s_suffix_id == <<"_","i","d">>
s_suffix_ids == <<"_","i","d","s">>
s_s == <<"s">>
s_name == <<"n","a","m","e">>
s_title == <<"t","i","t","l","e">>
s_label == <<"l","a","b","e","l">>
s_slug == <<"s","l","u","g">>
s_email == <<"e","m","a","i","l">>
s_username == <<"u","s","e","r","n","a","m","e">>
s_full_name == <<"f","u","l","l","_","n","a","m","e">>
s_password == <<"p","a","s","s","w","o","r","d">>
s_User == <<"U","s","e","r">>
s_int == <<"i","n","t">>
s_str == <<"s","t","r">>
s_bool == <<"b","o","o","l">>
s_float == <<"f","l","o","a","t">>
s_datetime == <<"d","a","t","e","t","i","m","e">>
s_upload == <<"u","p","l","o","a","d">>
s_login == <<"l","o","g","i","n">>
s_avatar == <<"a","v","a","t","a","r">>
s_image == <<"i","m","a","g","e">>
s_photo == <<"p","h","o","t","o">>
s_logo == <<"l","o","g","o">>
s_file == <<"f","i","l","e">>
s_attachment == <<"a","t","t","a","c","h","m","e","n","t">>
s_suffix_image == <<"_","i","m","a","g","e">>
s_suffix_img == <<"_","i","m","g">>
s_suffix_photo == <<"_","p","h","o","t","o">>
s_suffix_file == <<"_","f","i","l","e">>
s_suffix_attachment == <<"_","a","t","t","a","c","h","m","e","n","t">>
perm_rcu == <<"r","c","u">>
perm_r == <<"r">>
perm_cu == <<"c","u">>

-----------------------------------------------------------------------------
(* get_model_fields *)

\* generator.py 25-38: the site_props block of a field; absence at any level
\* is the empty dict, and an empty block falls back to json_schema_extra
field_site_props(field) ==
    LET kw0 == field.sa_column_kwargs
        sa_column_kwargs == IF IsUndefined(kw0) \/ IsNone(kw0) THEN EmptyDict ELSE kw0
        info == Get(sa_column_kwargs, "info", EmptyDict)
        site_props == Get(info, "site_props", EmptyDict)
        js0 == field.json_schema_extra
        json_schema_extra == IF IsUndefined(js0) \/ IsNone(js0) THEN EmptyDict ELSE js0
    IN IF ~Truthy(site_props)
       THEN Get(json_schema_extra, "site_props", EmptyDict)
       ELSE site_props

\* generator.py 40-48: permissions of a field; `id` is forced to 'r'
WritableIdPermissions(name, site_props) ==
    LET permissions == Get(site_props, "permissions", perm_rcu)
    IN IF name = s_id /\ "permissions" \notin DOMAIN site_props THEN perm_r ELSE permissions

field_permissions(name, site_props) ==
    LET permissions == Get(site_props, "permissions", perm_rcu)
    IN IF name = s_id THEN perm_r ELSE permissions

\* generator.py 63: the annotation is an enumeration class of str or int values
annotation_is_enum(annotation) == annotation.is_class /\ annotation.str_or_int /\ annotation.has_members

\* generator.py 52-75: the semantic type, by substring of the annotation's text
field_type_str(annotation) ==
    LET type_str == IF annotation_is_enum(annotation) THEN s_str ELSE annotation.text
    IN IF contains(type_str, s_int) THEN "int"
       ELSE IF contains(type_str, s_str) THEN "str"
       ELSE IF contains(type_str, s_bool) \/ annotation.is_bool THEN "bool"
       ELSE IF contains(type_str, s_float) THEN "float"
       ELSE IF contains(type_str, s_datetime) THEN "datetime"
       ELSE "str"

\* the UI type with the name heuristics tried before the component annotation
NameBeforeComponent(name, type_str, site_props) ==
    LET component == Get(site_props, "component", "None")
    IN IF type_str = "str" /\ ( \/ endswith(name, s_suffix_image)
                                \/ endswith(name, s_suffix_img)
                                \/ endswith(name, s_suffix_photo)
                                \/ name = s_avatar
                                \/ name = s_image
                                \/ name = s_photo
                                \/ name = s_logo ) THEN "image"
       ELSE IF type_str = "str" /\ ( \/ endswith(name, s_suffix_file)
                                     \/ endswith(name, s_suffix_attachment)
                                     \/ name = s_file
                                     \/ name = s_attachment ) THEN "file"
       ELSE IF component = "image" THEN "image"
       ELSE IF component = "file" THEN "file"
       ELSE type_str

\* generator.py 77-104: the UI type, explicit component first, then the name
field_ui_type(name, type_str, site_props) ==
    LET component == Get(site_props, "component", "None")
    IN IF component = "image" THEN "image"
       ELSE IF component = "file" THEN "file"
       ELSE IF type_str = "str" /\ ( \/ endswith(name, s_suffix_image)
                                     \/ endswith(name, s_suffix_img)
                                     \/ endswith(name, s_suffix_photo)
                                     \/ name = s_avatar
                                     \/ name = s_image
                                     \/ name = s_photo
                                     \/ name = s_logo ) THEN "image"
       ELSE IF type_str = "str" /\ ( \/ endswith(name, s_suffix_file)
                                     \/ endswith(name, s_suffix_attachment)
                                     \/ name = s_file
                                     \/ name = s_attachment ) THEN "file"
       ELSE type_str

\* a reference whose target keeps the case of the prefix after its first
\* letter
PrefixCased(name) ==
    IF endswith(name, s_suffix_id) /\ name # s_id
    THEN LET target_model_name == SubSeq(name, 1, Len(name) - 3)
         IN [name |-> name,
             target_model |-> <<upper_char(Head(target_model_name))>> \o Tail(target_model_name),
             target_service |-> target_model_name,
             target_endpoint |-> target_model_name \o s_s,
             label_field |-> s_name]
    ELSE NoneValue

\* generator.py 128-139: the foreign-key reference guessed from the name
field_fk_info(name) ==
    IF endswith(name, s_suffix_id) /\ name # s_id
    THEN LET target_model_name == SubSeq(name, 1, Len(name) - 3)
         IN [name |-> name,
             target_model |-> capitalize(target_model_name),
             target_service |-> target_model_name,
             target_endpoint |-> target_model_name \o s_s,
             label_field |-> s_name]
    ELSE NoneValue

\* generator.py 21-162: the descriptor of one declared field (the `default`
\* and `label_key` entries, which no later step of the generator reads, are
\* left out)
field_descriptor(field) ==
    LET site_props == field_site_props(field)
        type_str == field_type_str(field.annotation)
        is_enum == annotation_is_enum(field.annotation)
    IN [name |-> field.name,
        type |-> IF ~field.required THEN "Optional[" \o type_str \o "]" ELSE type_str,
        ui_type |-> field_ui_type(field.name, type_str, site_props),
        permissions |-> field_permissions(field.name, site_props),
        create_optional |-> Get(site_props, "create_optional", FALSE),
        update_optional |-> Get(site_props, "update_optional", FALSE),
        required |-> field.required,
        is_enum |-> is_enum,
        enum_values |-> IF is_enum THEN field.annotation.members ELSE <<>>,
        is_search_field |-> Get(site_props, "is_search_field", FALSE),
        fk_info |-> field_fk_info(field.name),
        allow_download |-> Get(site_props, "allow_download", TRUE),
        translations |-> Get(site_props, "translations", EmptyDict)]

\* generator.py 169
guess_candidates == <<s_name, s_title, s_label, s_slug, s_email, s_username, s_full_name>>

\* generator.py 170-174: the field of the first candidate, in the order of
\* guess_candidates, that names a field; 0 when no candidate does
FirstDeclaredCandidate(fields, k) ==
    FirstIndex(fields, LAMBDA f : \E c \in DOMAIN guess_candidates : guess_candidates[c] = f.name)

RECURSIVE guess_search_index(_, _)
guess_search_index(fields, k) ==
    IF k > Len(guess_candidates) THEN 0
    ELSE LET found == FirstIndex(fields, LAMBDA f : f.name = guess_candidates[k])
         IN IF found # 0 THEN found ELSE guess_search_index(fields, k + 1)

\* fields[i]["is_search_field"] = True; 0 marks nothing
mark_search_field(fields, i) ==
    IF i = 0 THEN fields ELSE [fields EXCEPT ![i].is_search_field = TRUE]

\* generator.py 164-180: the search field when none is annotated
resolve_search_field(fields) ==
    LET has_explicit_search == \E i \in DOMAIN fields : fields[i].is_search_field
        guessed == IF ~has_explicit_search
                   THEN mark_search_field(fields, guess_search_index(fields, 1))
                   ELSE fields
    IN IF ~(\E i \in DOMAIN guessed : guessed[i].is_search_field)
       THEN mark_search_field(guessed,
                FirstIndex(guessed, LAMBDA f : f.ui_type = "str" /\ ~f.is_enum))
       ELSE guessed

\* an entity is a link table when all of its fields, two or more, are foreign
\* keys, or when it is flagged
ShapeHeuristic(model_cls) ==
    LET flagged == IF model_cls.table_args_kind = "dict"
                   THEN Get(Get(model_cls.table_args, "info", EmptyDict), "site_props", EmptyDict)
                   ELSE EmptyDict
    IN IF /\ Len(model_cls.fields) >= 2
          /\ \A i \in DOMAIN model_cls.fields : endswith(model_cls.fields[i].name, s_suffix_id)
       THEN Put(flagged, "is_link_table", TRUE)
       ELSE flagged

\* generator.py 205-212: entity-level metadata, read from __table_args__ when
\* it is a dict
class_site_props(model_cls) ==
    IF model_cls.table_args_kind = "dict"
    THEN Get(Get(model_cls.table_args, "info", EmptyDict), "site_props", EmptyDict)
    ELSE EmptyDict

\* generator.py 18-214.  foreign_keys holds the fk_info dicts of the fields
\* themselves (the same objects), so it is the positions of those fields
get_model_fields(model_cls) ==
    LET raw == [i \in 1..Len(model_cls.fields) |-> field_descriptor(model_cls.fields[i])]
        fields == resolve_search_field(raw)
        first == FirstIndex(fields, LAMBDA f : f.is_search_field)
    IN [fields |-> fields,
        foreign_keys |-> Positions(fields, LAMBDA f : Truthy(f.fk_info)),
        search_field |-> IF first # 0 THEN fields[first].name ELSE s_id,
        is_link_table |-> Get(class_site_props(model_cls), "is_link_table", FALSE),
        translations |-> Get(class_site_props(model_cls), "translations", EmptyDict)]

\* model["foreign_keys"]: the fk_info dicts, read through the fields
foreign_keys_of(model) ==
    [k \in 1..Len(model.foreign_keys) |-> model.fields[model.foreign_keys[k]].fk_info]

-----------------------------------------------------------------------------
(* The declarations the model draws its inputs from *)

s_hashed_password == <<"h","a","s","h","e","d","_","p","a","s","s","w","o","r","d">>
s_price == <<"p","r","i","c","e">>
s_status == <<"s","t","a","t","u","s">>
s_x2y == <<"x","2","y">>
s_tag_id == <<"t","a","g","_","i","d">>
s_product_id == <<"p","r","o","d","u","c","t","_","i","d">>
s_category_id == <<"c","a","t","e","g","o","r","y","_","i","d">>
s_Tag == <<"T","a","g">>
s_Product == <<"P","r","o","d","u","c","t">>
s_Category == <<"C","a","t","e","g","o","r","y">>
s_ProductTag == <<"P","r","o","d","u","c","t","T","a","g">>
s_UserBase == <<"U","s","e","r","B","a","s","e">>
s_Login == <<"L","o","g","i","n">>
s_user_id == <<"u","s","e","r","_","i","d">>
s_Item == <<"I","t","e","m">>
t_int == <<"<","c","l","a","s","s"," ","'","i","n","t","'",">">>
t_str == <<"<","c","l","a","s","s"," ","'","s","t","r","'",">">>
t_float == <<"<","c","l","a","s","s"," ","'","f","l","o","a","t","'",">">>
t_opt_str == <<"t","y","p","i","n","g",".","O","p","t","i","o","n","a","l","[","s","t","r","]">>
t_opt_int == <<"t","y","p","i","n","g",".","O","p","t","i","o","n","a","l","[","i","n","t","]">>
t_enum == <<"<","e","n","u","m"," ","'","S","t","a","t","u","s","'",">">>
tr_full_name_zh == <<"Q","M">>
tr_x2y_en == <<"E","x">>
tr_name_en == <<"N","m">>
tr_name_zh == <<"M","C">>
tr_Tag_zh == <<"B","Q">>
perm_rc == <<"r","c">>
s_owner_id == <<"o","w","n","e","r","_","i","d">>
s_Tagging == <<"T","a","g","g","i","n","g">>
s_Audit == <<"A","u","d","i","t">>
s_Bundle == <<"B","u","n","d","l","e">>
s_Pin == <<"P","i","n">>
s_Label == <<"L","a","b","e","l">>
perm_none == <<>>

\* the annotation of a field: the text str() gives it, and what line 63 tests
ann_int == [text |-> t_int, is_class |-> TRUE, str_or_int |-> TRUE,
            has_members |-> FALSE, is_bool |-> FALSE, members |-> <<>>]
ann_str == [text |-> t_str, is_class |-> TRUE, str_or_int |-> TRUE,
            has_members |-> FALSE, is_bool |-> FALSE, members |-> <<>>]
ann_float == [text |-> t_float, is_class |-> TRUE, str_or_int |-> FALSE,
              has_members |-> FALSE, is_bool |-> FALSE, members |-> <<>>]
ann_opt_int == [text |-> t_opt_int, is_class |-> FALSE, str_or_int |-> FALSE,
                has_members |-> FALSE, is_bool |-> FALSE, members |-> <<>>]
ann_opt_str == [text |-> t_opt_str, is_class |-> FALSE, str_or_int |-> FALSE,
                has_members |-> FALSE, is_bool |-> FALSE, members |-> <<>>]
ann_enum == [text |-> t_enum, is_class |-> TRUE, str_or_int |-> TRUE,
             has_members |-> TRUE, is_bool |-> FALSE, members |-> <<"active", "closed">>]

\* Field(..., sa_column_kwargs={"info": {"site_props": site_props}})
Field(name, annotation, required, site_props) ==
    [name |-> name, annotation |-> annotation, required |-> required,
     sa_column_kwargs |-> IF DOMAIN site_props = {} THEN PydanticUndefined
                          ELSE [info |-> [site_props |-> site_props]],
     json_schema_extra |-> PydanticUndefined]

\* Field(..., json_schema_extra={"site_props": site_props})
FieldExtra(name, annotation, required, site_props) ==
    [name |-> name, annotation |-> annotation, required |-> required,
     sa_column_kwargs |-> PydanticUndefined,
     json_schema_extra |-> [site_props |-> site_props]]

f_id == Field(s_id, ann_opt_int, FALSE, EmptyDict)
f_id_cu == FieldExtra(s_id, ann_int, TRUE, [permissions |-> perm_cu])
f_name == Field(s_name, ann_str, TRUE,
                [translations |-> [en |-> tr_name_en, zh |-> tr_name_zh]])
f_title == Field(s_title, ann_str, TRUE, EmptyDict)
f_slug == Field(s_slug, ann_str, TRUE, EmptyDict)
f_email == Field(s_email, ann_str, TRUE,
                 [permissions |-> perm_rc, is_search_field |-> TRUE])
f_full_name == Field(s_full_name, ann_opt_str, FALSE,
                     [translations |-> [zh |-> tr_full_name_zh]])
f_x2y == Field(s_x2y, ann_str, TRUE,
               [is_search_field |-> TRUE, translations |-> [en |-> tr_x2y_en]])
f_price == Field(s_price, ann_float, TRUE, EmptyDict)
f_status == Field(s_status, ann_enum, TRUE, EmptyDict)
f_password == Field(s_password, ann_str, TRUE, [permissions |-> perm_cu])
\* a password declared without permissions, hence readable
f_password_plain == Field(s_password, ann_str, TRUE, EmptyDict)
f_user_id == Field(s_user_id, ann_int, TRUE, EmptyDict)
f_hashed_password == Field(s_hashed_password, ann_str, TRUE, [permissions |-> perm_none])
f_tag_id == Field(s_tag_id, ann_int, TRUE, EmptyDict)
f_product_id == Field(s_product_id, ann_int, TRUE, EmptyDict)
f_category_id == Field(s_category_id, ann_opt_int, FALSE, EmptyDict)
f_owner_id == Field(s_owner_id, ann_int, TRUE, EmptyDict)

\* a class of a models module: table says whether it is a table model
\* (line 437); table_args_kind says what __table_args__ is
Class(name, table, fields, table_args_kind, table_args) ==
    [name |-> name, table |-> table, fields |-> fields,
     table_args_kind |-> table_args_kind, table_args |-> table_args]

link_table_args == [info |-> [site_props |-> [is_link_table |-> TRUE]]]

c_Category == Class(s_Category, TRUE, <<f_id, f_name>>, "absent", EmptyDict)
c_Product == Class(s_Product, TRUE, <<f_id, f_category_id, f_title, f_price>>,
                   "absent", EmptyDict)
c_Tag == Class(s_Tag, TRUE, <<f_id, f_slug>>, "dict",
               [info |-> [site_props |-> [translations |-> [zh |-> tr_Tag_zh]]]])
c_ProductTag == Class(s_ProductTag, TRUE, <<f_id, f_product_id, f_tag_id>>,
                      "dict", link_table_args)
c_Tagging == Class(s_Tagging, TRUE, <<f_tag_id, f_product_id>>, "dict", link_table_args)
c_Audit == Class(s_Audit, TRUE, <<f_id, f_product_id, f_owner_id>>, "dict", link_table_args)
c_Bundle == Class(s_Bundle, TRUE, <<f_product_id, f_tag_id, f_category_id>>,
                  "dict", link_table_args)
c_Pin == Class(s_Pin, TRUE, <<f_id, f_product_id>>, "dict", link_table_args)
c_Label == Class(s_Label, TRUE, <<f_id, f_product_id, f_tag_id>>, "dict", link_table_args)
c_UserBase == Class(s_UserBase, FALSE, <<f_email, f_full_name>>, "absent", EmptyDict)
c_User == Class(s_User, TRUE, <<f_email, f_full_name, f_id, f_hashed_password>>,
                "absent", EmptyDict)
c_Account == Class(s_User, TRUE, <<f_id, f_email, f_password_plain>>, "tuple", EmptyDict)
\* an entity that references User; it has the name of the fixed login endpoint
c_Login == Class(s_Login, TRUE, <<f_id, f_user_id>>, "absent", EmptyDict)

\* a module under backend/app/models: its file stem, what importing it does
\* ("ok", or the exception raised), and the classes inspect.getmembers finds
\* in it, in the name order getmembers returns: those it defines and those it
\* imports from the modules named in needs
Module(module_name, load, members, defines, needs) ==
    [module_name |-> module_name, load |-> load, members |-> members,
     defines |-> defines, needs |-> needs]

ModulePool ==
    { Module("catalog", "ok", <<c_Category, c_Product, c_Tag>>,
             {s_Category, s_Product, s_Tag}, {}),
      Module("product_tag", "ok", <<c_ProductTag>>, {s_ProductTag}, {}),
      Module("audit", "ok", <<c_Audit, c_Label, c_Pin, c_Tagging>>,
             {s_Audit, s_Label, s_Pin, s_Tagging}, {}),
      Module("links", "ok", <<c_Bundle, c_Product, c_ProductTag, c_Tag>>,
             {s_Bundle, s_ProductTag}, {"catalog"}),
      Module("user", "ok", <<c_Login, c_User, c_UserBase>>, {s_Login, s_User}, {}),
      Module("account", "ok", <<c_Account>>, {s_User}, {}),
      Module("draft", "ImportError", <<>>, {}, {}),
      Module("legacy", "SyntaxError", <<>>, {}, {}) }

\* the sequences of at most n distinct elements of S
RECURSIVE Arrangements(_, _)
Arrangements(S, n) ==
    IF n = 0 THEN {<<>>}
    ELSE LET shorter == Arrangements(S, n - 1)
         IN shorter \cup { Append(q, x) : q \in { r \in shorter : Len(r) = n - 1 },
                                          x \in S }

Distinct(seq, key(_)) ==
    \A i, j \in DOMAIN seq : i # j => key(seq[i]) # key(seq[j])

\* a project the generator can be run on: no class is defined by two of its
\* modules (SQLAlchemy refuses a second table of the same name), and what a
\* module imports is a module globbed before it (so that line 424's reload of
\* an already imported module, which would define its tables again, is not
\* taken)
ValidProject(modules) ==
    /\ Distinct(modules, LAMBDA m : m.module_name)
    /\ \A i, j \in DOMAIN modules : i # j => modules[i].defines \cap modules[j].defines = {}
    /\ \A i \in DOMAIN modules :
         \A n \in modules[i].needs : \E j \in 1..(i - 1) : modules[j].module_name = n

Projects ==
    { q \in Arrangements(ModulePool, MaxModules) : q # <<>> /\ ValidProject(q) }

FieldPool ==
    { f_id, f_id_cu, f_name, f_title, f_email, f_full_name, f_x2y,
      f_status, f_tag_id, f_password }

\* one module holding one table class with any fields of FieldPool
FieldProjects ==
    { << Module("item", "ok", <<Class(n, TRUE, fields, "absent", EmptyDict)>>, {n}, {}) >> :
        n \in {s_Item, s_User},
        fields \in { q \in Arrangements(FieldPool, MaxFields) :
                       q # <<>> /\ Distinct(q, LAMBDA f : f.name) } }

s_subTag_id == <<"s","u","b","T","a","g","_","i","d">>
s_Subtag == <<"S","u","b","t","a","g">>
s_external_id == <<"e","x","t","e","r","n","a","l","_","i","d">>

\* annotations of the other types a field is declared with: bool (a subclass
\* of int), datetime, a Union, a class str() gives no known word for, an
\* IntEnum (its values 1 and 2 written as text), an Enum without str or int
\* base, whose members have str values
ann_bool == [text |-> <<"<","c","l","a","s","s"," ","'","b","o","o","l","'",">">>,
             is_class |-> TRUE, str_or_int |-> TRUE, has_members |-> FALSE,
             is_bool |-> TRUE, members |-> <<>>]
ann_datetime == [text |-> <<"<","c","l","a","s","s"," ","'","d","a","t","e","t","i","m","e",".","d","a","t","e","t","i","m","e","'",">">>,
                 is_class |-> TRUE, str_or_int |-> FALSE, has_members |-> FALSE,
                 is_bool |-> FALSE, members |-> <<>>]
ann_union == [text |-> <<"t","y","p","i","n","g",".","U","n","i","o","n","[","i","n","t",","," ","s","t","r","]">>,
              is_class |-> FALSE, str_or_int |-> FALSE, has_members |-> FALSE,
              is_bool |-> FALSE, members |-> <<>>]
ann_decimal == [text |-> <<"<","c","l","a","s","s"," ","'","d","e","c","i","m","a","l",".","D","e","c","i","m","a","l","'",">">>,
                is_class |-> TRUE, str_or_int |-> FALSE, has_members |-> FALSE,
                is_bool |-> FALSE, members |-> <<>>]
ann_int_enum == [text |-> <<"<","e","n","u","m"," ","'","L","e","v","e","l","'",">">>,
                 is_class |-> TRUE, str_or_int |-> TRUE, has_members |-> TRUE,
                 is_bool |-> FALSE, members |-> <<"1", "2">>]
ann_plain_enum == [text |-> <<"<","e","n","u","m"," ","'","S","t","a","t","e","'",">">>,
                   is_class |-> TRUE, str_or_int |-> FALSE, has_members |-> TRUE,
                   is_bool |-> FALSE, members |-> <<"open", "shut">>]
\* Optional[Stage] of a str-based enumeration Stage: no class, and no
\* __members__ of its own; members are the values of Stage
ann_opt_enum == [text |-> <<"t","y","p","i","n","g",".","O","p","t","i","o","n","a","l","[","a","p","p",".","m","o","d","e","l","s",".","i","t","e","m",".","S","t","a","g","e","]">>,
                 is_class |-> FALSE, str_or_int |-> FALSE, has_members |-> FALSE,
                 is_bool |-> FALSE, members |-> <<"draft", "final">>]

\* fields of every semantic type and UI type, with and without the component
\* annotation, and foreign keys
TypedFieldPool ==
    { f_id, f_tag_id, f_status,
      Field(s_subTag_id, ann_int, TRUE, EmptyDict),
      Field(s_external_id, ann_str, TRUE, EmptyDict),
      Field(s_avatar, ann_opt_str, FALSE, EmptyDict),
      Field(<<"c","o","v","e","r","_","i","m","a","g","e">>, ann_str, TRUE, EmptyDict),
      Field(s_logo, ann_str, TRUE, [component |-> "file"]),
      Field(s_photo, ann_int, TRUE, EmptyDict),
      Field(<<"r","a","t","i","n","g">>, ann_float, FALSE, [component |-> "image"]),
      Field(<<"r","e","p","o","r","t","_","f","i","l","e">>, ann_str, TRUE, EmptyDict),
      Field(<<"i","s","_","a","c","t","i","v","e">>, ann_bool, FALSE, EmptyDict),
      Field(<<"c","r","e","a","t","e","d","_","a","t">>, ann_datetime, TRUE, EmptyDict),
      Field(<<"c","o","d","e">>, ann_union, TRUE, EmptyDict),
      Field(<<"a","m","o","u","n","t">>, ann_decimal, TRUE, [component |-> "textarea"]),
      Field(<<"l","e","v","e","l">>, ann_int_enum, TRUE, EmptyDict),
      Field(<<"s","t","a","t","e">>, ann_plain_enum, TRUE, EmptyDict),
      Field(<<"s","t","a","g","e">>, ann_opt_enum, FALSE, EmptyDict) }

\* classes that differ in __table_args__ and in their foreign keys: without
\* the link-table flag (no __table_args__, a tuple, a dict without info, an
\* info without site_props, site_props without the flag, the flag False) and
\* with it (a tuple that ends with a dict is given with that dict)
ShapedClassPool ==
    { Class(<<"P","a","i","r">>, TRUE, <<f_product_id, f_tag_id>>, "absent", EmptyDict),
      Class(<<"P","a","i","r">>, TRUE, <<f_product_id, f_tag_id>>, "tuple", EmptyDict),
      Class(<<"P","a","i","r">>, TRUE, <<f_product_id, f_tag_id>>, "dict", [extend_existing |-> TRUE]),
      Class(<<"P","a","i","r">>, TRUE, <<f_id, f_product_id, f_tag_id>>, "dict",
            [info |-> [comment |-> TRUE]]),
      Class(<<"P","a","i","r">>, TRUE, <<f_product_id, f_tag_id>>, "dict",
            [info |-> [site_props |-> [translations |-> [zh |-> tr_Tag_zh]]]]),
      Class(<<"P","a","i","r">>, TRUE, <<f_product_id, f_tag_id>>, "dict",
            [info |-> [site_props |-> [is_link_table |-> FALSE]]]),
      Class(<<"P","a","i","r">>, TRUE, <<f_product_id, f_tag_id>>, "tuple", link_table_args),
      Class(<<"F","l","a","g","g","e","d">>, TRUE, <<f_id, f_title>>, "dict", link_table_args),
      Class(<<"F","l","a","g","g","e","d">>, TRUE, <<f_product_id, f_tag_id>>, "dict",
            [info |-> [site_props |-> [is_link_table |-> TRUE,
                                       translations |-> [zh |-> tr_Tag_zh]]]]) }

\* one module holding one table class: any fields of TypedFieldPool, or a
\* class of ShapedClassPool
DeclarationProjects ==
    { << Module("item", "ok", <<Class(s_Item, TRUE, fields, "absent", EmptyDict)>>,
                {s_Item}, {}) >> :
        fields \in { q \in Arrangements(TypedFieldPool, MaxTypedFields) :
                       q # <<>> /\ Distinct(q, LAMBDA f : f.name) } }
    \cup { << Module("shape", "ok", <<c>>, {c.name}, {}) >> : c \in ShapedClassPool }

-----------------------------------------------------------------------------
(* generate_code: the registry build *)

\* generator.py 445-456: the virtual password field of User
password_field ==
    [name |-> s_password, type |-> "str", ui_type |-> "str", permissions |-> perm_cu,
     create_optional |-> FALSE, update_optional |-> TRUE, required |-> TRUE,
     is_search_field |-> FALSE, fk_info |-> NoneValue]

\* generator.py 442-456: User gets the password field unless it has one
NoPasswordField(name, fields) == fields

with_password(name, fields) ==
    IF name = s_User /\ ~(\E i \in DOMAIN fields : fields[i].name = s_password)
    THEN Append(fields, password_field)
    ELSE fields

\* generator.py 438-467: the descriptor appended to found_models for one class
model_descriptor(module_name, model_cls) ==
    LET r == get_model_fields(model_cls)
    IN [name |-> model_cls.name,
        module_name |-> module_name,
        lower_name |-> lower(model_cls.name),
        fields |-> with_password(model_cls.name, r.fields),
        foreign_keys |-> r.foreign_keys,
        search_field |-> r.search_field,
        is_link_table |-> r.is_link_table,
        translations |-> r.translations]

\* generator.py 432-467: the descriptors of the table models among the members
\* of one module
RECURSIVE inspect_members(_, _)
inspect_members(module_name, members) ==
    IF members = <<>> THEN <<>>
    ELSE (IF Head(members).table
          THEN <<model_descriptor(module_name, Head(members))>>
          ELSE <<>>) \o inspect_members(module_name, Tail(members))

\* generator.py 427: the exceptions the import of a module is guarded against
caught_on_import(load) == load = "ImportError"

\* generator.py 419-467: one iteration of the loop over model_files; an
\* exception that line 427 does not catch leaves generate_code
Discover ==
    /\ pc = "discover"
    /\ IF idx > Len(project)
       THEN /\ pc' = "enrich"
            /\ idx' = 1
            /\ UNCHANGED <<found_models, log>>
       ELSE LET module == project[idx]
            IN IF module.load = "ok"
               THEN /\ found_models' =
                         found_models \o inspect_members(module.module_name, module.members)
                    /\ idx' = idx + 1
                    /\ UNCHANGED <<pc, log>>
               ELSE IF caught_on_import(module.load)
               THEN /\ log' = log \cup {module.module_name}
                    /\ idx' = idx + 1
                    /\ UNCHANGED <<pc, found_models>>
               ELSE /\ pc' = "raised"
                    /\ UNCHANGED <<idx, found_models, log>>
    /\ UNCHANGED <<project, env, fs, fs_prev, rendered, run>>

-----------------------------------------------------------------------------
(* generate_code: cross-reference resolution *)

\* generator.py 471: model_map = {m["name"]: m for m in found_models}; the
\* entry of a name is the last descriptor of that name, given by its position
\* in found_models (0: no entry)
model_map(models, name) ==
    IF \E i \in DOMAIN models : models[i].name = name
    THEN CHOOSE i \in DOMAIN models :
            /\ models[i].name = name
            /\ \A j \in (i + 1)..Len(models) : models[j].name # name
    ELSE 0

\* a reference that shows every field of its target but password and the
\* foreign keys, readable or not
ReadableOrNot(target_model) ==
    Positions(target_model.fields,
              LAMBDA f : /\ f.name # s_password
                         /\ ~Truthy(Get(f, "fk_info", NoneValue)))

\* generator.py 479-482: the target's fields a reference may show, as their
\* positions in the target's fields
target_readable_fields(target_model) ==
    Positions(target_model.fields,
              LAMBDA f : /\ contains(f.permissions, perm_r)
                         /\ f.name # s_password
                         /\ ~Truthy(Get(f, "fk_info", NoneValue)))

\* generator.py 474-482: one foreign key of a model, enriched when its target
\* is in model_map
KeepGuessedLabel(models, fk) == fk

\* an unresolved reference gets the label `id`
FallBackToId(models, fk) ==
    LET target == model_map(models, fk.target_model)
    IN IF target # 0
       THEN Put(Put(fk, "label_field", models[target].search_field),
                "target_readable_fields", target_readable_fields(models[target]))
       ELSE Put(fk, "label_field", s_id)

enrich_fk(models, fk) ==
    LET target == model_map(models, fk.target_model)
    IN IF target # 0
       THEN Put(Put(fk, "label_field", models[target].search_field),
                "target_readable_fields", target_readable_fields(models[target]))
       ELSE fk

\* generator.py 473-483: the foreign keys of found_models[m], enriched one
\* after the other (fields[p]["fk_info"] is the dict the loop updates)
RECURSIVE enrich_model(_, _, _)
enrich_model(models, m, k) ==
    IF k > Len(models[m].foreign_keys) THEN models
    ELSE LET p == models[m].foreign_keys[k]
             updated == [models EXCEPT ![m].fields[p].fk_info =
                                          enrich_fk(models, models[m].fields[p].fk_info)]
         IN enrich_model(updated, m, k + 1)

\* generator.py 472-483: one iteration of the loop over found_models
EnrichForeignKeys ==
    /\ pc = "enrich"
    /\ IF idx > Len(found_models)
       THEN /\ pc' = "link"
            /\ idx' = 1
            /\ UNCHANGED found_models
       ELSE /\ found_models' = enrich_model(found_models, idx, 1)
            /\ idx' = idx + 1
            /\ UNCHANGED pc
    /\ UNCHANGED <<project, env, fs, fs_prev, rendered, log, run>>

\* generator.py 508-518: the virtual relation a link table gives its source
ProvisionalLabel(models, link, source_fk, target_fk, target) ==
    [name |-> models[target].lower_name \o s_suffix_ids,
     target_model |-> target_fk.target_model,
     target_service |-> target_fk.target_service,
     target_endpoint |-> target_fk.target_endpoint,
     label_field |-> s_name,
     link_model |-> models[link].name,
     link_module |-> models[link].module_name,
     source_fk_field |-> source_fk.name,
     target_fk_field |-> target_fk.name]

m2m_field(models, link, source_fk, target_fk, target) ==
    [name |-> models[target].lower_name \o s_suffix_ids,
     target_model |-> target_fk.target_model,
     target_service |-> target_fk.target_service,
     target_endpoint |-> target_fk.target_endpoint,
     label_field |-> target_fk.label_field,
     link_model |-> models[link].name,
     link_module |-> models[link].module_name,
     source_fk_field |-> source_fk.name,
     target_fk_field |-> target_fk.name]

\* generator.py 488-518: found_models after the link table at position link
\* has been processed
NoRelation(models, link) == models

OnTargetModel(models, link) ==
    LET fks == foreign_keys_of(models[link])
        source == model_map(models, fks[1].target_model)
        target == model_map(models, fks[2].target_model)
    IN IF models[link].is_link_table /\ Len(fks) >= 2 /\ source # 0 /\ target # 0
       THEN [models EXCEPT ![target] =
                Put(models[target], "m2m_fields",
                    Append(Get(models[target], "m2m_fields", <<>>),
                           m2m_field(models, link, fks[1], fks[2], target)))]
       ELSE models

inject_m2m(models, link) ==
    IF ~models[link].is_link_table THEN models
    ELSE LET fks == foreign_keys_of(models[link])
         IN IF Len(fks) < 2 THEN models
            ELSE LET source_fk == fks[1]
                     target_fk == fks[2]
                     source == model_map(models, source_fk.target_model)
                     target == model_map(models, target_fk.target_model)
                 IN IF source # 0 /\ target # 0
                    THEN [models EXCEPT ![source] =
                            Put(models[source], "m2m_fields",
                                Append(Get(models[source], "m2m_fields", <<>>),
                                       m2m_field(models, link, source_fk, target_fk, target)))]
                    ELSE models

\* generator.py 487-518: one iteration of the loop over found_models
SynthesizeRelations ==
    /\ pc = "link"
    /\ IF idx > Len(found_models)
       THEN /\ pc' = "emit"
            /\ idx' = 1
            /\ UNCHANGED found_models
       ELSE /\ found_models' = inject_m2m(found_models, idx)
            /\ idx' = idx + 1
            /\ UNCHANGED pc
    /\ UNCHANGED <<project, env, fs, fs_prev, rendered, log, run>>

-----------------------------------------------------------------------------
(* generate_code: emission *)

s_api == <<"a","p","i">>
s_Routes == <<"R","o","u","t","e","s">>
s_Menu == <<"M","e","n","u">>
s_en == <<"e","n">>
s_zh == <<"z","h">>
s_slash == <<"/">>

\* An output path is <<directory, file stem, rest of the file name>>.
schema_path(model) == <<"backend/app/schemas/", model.lower_name, ".py">>
crud_path(model) == <<"backend/app/cruds/", model.lower_name, ".py">>
service_path(model) == <<"backend/app/services/", model.lower_name, ".py">>
endpoint_path(lower_name) == <<"backend/app/api/endpoints/", lower_name, ".py">>
frontend_service_path(model) == <<"frontend/src/services/", model.lower_name, ".ts">>
store_path(model) == <<"frontend/src/stores/use", model.name, "Store.ts">>
page_list_path(model) == <<"frontend/src/pages/", model.lower_name, "/index.tsx">>
page_detail_path(model) == <<"frontend/src/pages/", model.lower_name, "/detail.tsx">>
api_router_path == <<"backend/app/api/", s_api, ".py">>
routes_path == <<"frontend/src/", s_Routes, ".tsx">>
menu_path == <<"frontend/src/", s_Menu, ".tsx">>
locale_path(locale) == <<"frontend/src/locales/", locale, ".json">>

\* the rendering engine: the text is a function of the template and the context
render(template_name, context) == [template |-> template_name, context |-> context]

\* Path.write_text: the content replaces what the file held
AppendText(files, path, content) ==
    IF path \in DOMAIN files
    THEN Put(files, path, [previous |-> files[path], appended |-> content])
    ELSE Put(files, path, content)

write_text(files, path, content) == Put(files, path, content)

\* generator.py 216-222
generate_file(files, template_name, context, output_path) ==
    write_text(files, output_path, render(template_name, context))

\* Path.write_text and Path.mkdir raise OSError on a path that cannot be written
raises_on_write(path) == path \in env.unwritable

\* generator.py 216-222, 864-883: the calls of a sequence that are carried out.
\* Neither generate_file nor update_api_router (nor generate_code, nor the sync
\* command of main.py) handles the exception of a write, so the first call
\* that raises ends the run and the calls after it are not made.
SwallowErrors(calls) ==
    [done |-> SelectSeq(calls, LAMBDA c : ~raises_on_write(c.path)), raised |-> FALSE]

attempt(calls) ==
    LET k == FirstIndex(calls, LAMBDA c : raises_on_write(c.path))
    IN [done |-> IF k = 0 THEN calls ELSE SubSeq(calls, 1, k - 1), raised |-> k # 0]

\* a directory of the project, as an entry of the file system
Directory == [directory |-> TRUE]

backend_dir == <<"backend/", <<>>, "">>
backend_env_path == <<"backend/", <<>>, ".env">>
frontend_env_path == <<"frontend/", <<>>, ".env">>

\* a file of the project directory before the first run: its text, or no file
EnvFile(text) == [exists |-> TRUE, text |-> text]
NoFile == [exists |-> FALSE, text |-> <<>>]

\* the project directory generate_code is started in
initial_files(environment) ==
    LET f0 == IF environment.backend_exists THEN Put(EmptyDict, backend_dir, Directory)
              ELSE EmptyDict
        f1 == IF environment.backend_env.exists
              THEN Put(f0, backend_env_path, environment.backend_env.text) ELSE f0
    IN IF environment.frontend_env.exists
       THEN Put(f1, frontend_env_path, environment.frontend_env.text) ELSE f1

\* str.startswith
startswith(s, prefix) == Len(s) >= Len(prefix) /\ SubSeq(s, 1, Len(prefix)) = prefix

\* str.splitlines, for texts whose only line boundary is "\n"
RECURSIVE splitlines(_)
splitlines(s) ==
    IF s = <<>> THEN <<>>
    ELSE LET k == FirstIndex(s, LAMBDA c : c = "\n")
         IN IF k = 0 THEN <<s>>
            ELSE <<SubSeq(s, 1, k - 1)>> \o splitlines(SubSeq(s, k + 1, Len(s)))

\* sep.join(lines)
RECURSIVE join(_, _)
join(sep, lines) ==
    IF lines = <<>> THEN <<>>
    ELSE IF Len(lines) = 1 THEN lines[1]
    ELSE lines[1] \o sep \o join(sep, Tail(lines))

\* str.strip
RECURSIVE strip(_)
strip(s) ==
    IF s = <<>> THEN <<>>
    ELSE IF Head(s) \in {" ", "\t", "\n"} THEN strip(Tail(s))
    ELSE IF s[Len(s)] \in {" ", "\t", "\n"} THEN strip(SubSeq(s, 1, Len(s) - 1))
    ELSE s

\* line.split("=", 1)[0].strip(), for a line that holds "="
key_of(line) == strip(SubSeq(line, 1, FirstIndex(line, LAMBDA c : c = "=") - 1))

\* json.dumps of a list of strings
json_dumps(strings) ==
    <<"[">> \o join(<<",", " ">>, [i \in DOMAIN strings |-> <<"\"">> \o strings[i] \o <<"\"">>])
            \o <<"]">>

\* str(None), which an f-string gives for a key the configuration lacks
str_None == <<"N","o","n","e">>

s_PROJECT_NAME == <<"P","R","O","J","E","C","T","_","N","A","M","E">>
s_DATABASE_URI == <<"D","A","T","A","B","A","S","E","_","U","R","I">>
s_SECRET_KEY == <<"S","E","C","R","E","T","_","K","E","Y">>
s_FIRST_SUPERUSER == <<"F","I","R","S","T","_","S","U","P","E","R","U","S","E","R">>
s_FIRST_SUPERUSER_PASSWORD == <<"F","I","R","S","T","_","S","U","P","E","R","U","S","E","R","_","P","A","S","S","W","O","R","D">>
s_BACKEND_CORS_ORIGINS == <<"B","A","C","K","E","N","D","_","C","O","R","S","_","O","R","I","G","I","N","S">>
s_VITE_API_URL == <<"V","I","T","E","_","A","P","I","_","U","R","L">>

\* generator.py 246-258: the keys of backend/.env and their values, in the
\* order of the dict
new_keys_of(config) ==
    << [key |-> s_PROJECT_NAME, val |-> Get(config, "project_name", str_None)],
       [key |-> s_DATABASE_URI, val |-> Get(config, "database_url", str_None)],
       [key |-> s_SECRET_KEY, val |-> Get(config, "secret_key", str_None)],
       [key |-> s_FIRST_SUPERUSER,
        val |-> Get(config, "first_superuser", <<"a","d","m","i","n","@","e","x","a","m","p","l","e",".","c","o","m">>)],
       [key |-> s_FIRST_SUPERUSER_PASSWORD,
        val |-> Get(config, "first_superuser_password", <<"a","d","m","i","n">>)] >>
    \o LET allowed_origins == Get(config, "allowed_origins", <<>>)
       IN IF allowed_origins # <<>>
          THEN << [key |-> s_BACKEND_CORS_ORIGINS, val |-> json_dumps(allowed_origins)] >>
          ELSE <<>>

\* f"{key}={val}"
assignment(key, val) == key \o <<"=">> \o val

\* generator.py 260-281: every line that assigns a key of new_keys is
\* replaced and the key deleted from new_keys; the keys that remain are
\* appended
RECURSIVE update_lines(_, _, _)
update_lines(lines, new_keys, updated_lines) ==
    IF lines = <<>>
    THEN updated_lines \o [k \in DOMAIN new_keys |-> assignment(new_keys[k].key, new_keys[k].val)]
    ELSE LET line == Head(lines)
             k == IF (\E c \in DOMAIN line : line[c] = "=") /\ ~startswith(line, <<"#">>)
                  THEN FirstIndex(new_keys, LAMBDA entry : entry.key = key_of(line))
                  ELSE 0
         IN IF k # 0
            THEN update_lines(Tail(lines),
                              SubSeq(new_keys, 1, k - 1) \o SubSeq(new_keys, k + 1, Len(new_keys)),
                              Append(updated_lines, assignment(new_keys[k].key, new_keys[k].val)))
            ELSE update_lines(Tail(lines), new_keys, Append(updated_lines, line))

\* generator.py 236-287: backend/.env is read when it exists and written with
\* its lines updated; the backend directory is created when it is missing
sync_backend_env(files) ==
    LET env_content == IF backend_env_path \in DOMAIN files THEN files[backend_env_path]
                       ELSE <<>>
        updated_lines == update_lines(splitlines(env_content), new_keys_of(env.config), <<>>)
    IN write_text(Put(files, backend_dir, Directory), backend_env_path,
                  join(<<"\n">>, updated_lines))

\* generator.py 289-320: frontend/.env; when its text does not hold
\* VITE_API_URL the line is appended to the file, else the lines that start
\* with VITE_API_URL= are replaced and the lines joined again
sync_frontend_env(files) ==
    LET api_url == Get(env.config, "api_url", <<"/","a","p","i","/","v","1">>)
        f_env_content == IF frontend_env_path \in DOMAIN files THEN files[frontend_env_path]
                         ELSE <<>>
        lines == splitlines(f_env_content)
    IN IF ~contains(f_env_content, s_VITE_API_URL)
       THEN write_text(files, frontend_env_path,
                       f_env_content \o <<"\n">> \o assignment(s_VITE_API_URL, api_url)
                                     \o <<"\n">>)
       ELSE write_text(files, frontend_env_path,
                       join(<<"\n">>,
                            [k \in DOMAIN lines |->
                                IF startswith(lines[k], s_VITE_API_URL \o <<"=">>)
                                THEN assignment(s_VITE_API_URL, api_url)
                                ELSE lines[k]]))

\* generator.py 234-320
sync_env_files(files) == sync_frontend_env(sync_backend_env(files))

\* generator.py 341-348: the .env files are synced, then generate_code returns
\* when there is no backend directory
SyncEnvFiles ==
    /\ pc = "start"
    /\ fs' = sync_env_files(fs)
    /\ pc' = IF backend_dir \in DOMAIN fs' THEN "discover" ELSE "returned"
    /\ UNCHANGED <<project, env, idx, found_models, fs_prev, rendered, log, run>>

\* the eight calls with the generic template for every model
GenericTemplates(model) ==
    << [template |-> "schema.py.j2", path |-> schema_path(model)],
       [template |-> "crud.py.j2", path |-> crud_path(model)],
       [template |-> "service.py.j2", path |-> service_path(model)],
       [template |-> "api.py.j2", path |-> endpoint_path(model.lower_name)],
       [template |-> "frontend_service.ts.j2", path |-> frontend_service_path(model)],
       [template |-> "frontend_store.ts.j2", path |-> store_path(model)],
       [template |-> "frontend_page_list.tsx.j2", path |-> page_list_path(model)],
       [template |-> "frontend_page_detail.tsx.j2", path |-> page_detail_path(model)] >>

\* generator.py 546-573: the eight generate_file calls for one model, in order
entity_artifacts(model) ==
    LET is_user_model == model.name = s_User
    IN << [template |-> IF is_user_model THEN "user_schema.py.j2" ELSE "schema.py.j2",
           path |-> schema_path(model)],
          [template |-> IF is_user_model THEN "user_crud.py.j2" ELSE "crud.py.j2",
           path |-> crud_path(model)],
          [template |-> IF is_user_model THEN "user_service.py.j2" ELSE "service.py.j2",
           path |-> service_path(model)],
          [template |-> "api.py.j2", path |-> endpoint_path(model.lower_name)],
          [template |-> "frontend_service.ts.j2", path |-> frontend_service_path(model)],
          [template |-> "frontend_store.ts.j2", path |-> store_path(model)],
          [template |-> "frontend_page_list.tsx.j2", path |-> page_list_path(model)],
          [template |-> "frontend_page_detail.tsx.j2", path |-> page_detail_path(model)] >>

RECURSIVE generate_files(_, _, _)
generate_files(files, calls, context) ==
    IF calls = <<>> THEN files
    ELSE generate_files(generate_file(files, Head(calls).template, context, Head(calls).path),
                        Tail(calls), context)

\* generator.py 541: the models no artifact is generated for
SkipNothing(model) == FALSE

skipped(model) == model.is_link_table

\* generator.py 539-573: one iteration of the loop over found_models
EmitEntity ==
    /\ pc = "emit"
    /\ IF idx > Len(found_models)
       THEN /\ pc' = "endpoints"
            /\ idx' = 1
            /\ UNCHANGED <<fs, rendered>>
       ELSE LET model == found_models[idx]
                result == attempt(IF skipped(model) THEN <<>> ELSE entity_artifacts(model))
                calls == result.done
            IN /\ fs' = generate_files(fs, calls, [model |-> model])
               /\ rendered' = rendered \o
                     [k \in 1..Len(calls) |->
                        [template |-> calls[k].template, path |-> calls[k].path, model |-> idx]]
               /\ IF result.raised
                  THEN pc' = "raised" /\ UNCHANGED idx
                  ELSE idx' = idx + 1 /\ UNCHANGED pc
    /\ UNCHANGED <<project, env, found_models, fs_prev, log, run>>

\* generator.py 671-686: upload.py is rendered and login.py copied into the
\* endpoints directory (the other files generate_code copies from the
\* templates or renders from site_config alone are not modelled)
SyncEndpoints ==
    /\ pc = "endpoints"
    /\ LET result == attempt(<<[path |-> endpoint_path(s_upload)],
                               [path |-> endpoint_path(s_login)]>>)
           f1 == generate_file(fs, "backend_api_upload.py.j2", "site_config",
                               endpoint_path(s_upload))
           f2 == write_text(f1, endpoint_path(s_login), [copy_of |-> "endpoints/login.py"])
       IN /\ fs' = <<fs, f1, f2>>[Len(result.done) + 1]
          /\ pc' = IF result.raised THEN "raised" ELSE "aggregate"
    /\ UNCHANGED <<project, env, idx, found_models, fs_prev, rendered, log, run>>

\* generator.py 864-881: the import lines and the include_router lines of the
\* given models
RECURSIVE router_lines(_)
router_lines(models) ==
    IF models = <<>> THEN [imports |-> <<>>, routers |-> <<>>]
    ELSE LET rest == router_lines(Tail(models))
             lower_name == Head(models).lower_name
         IN [imports |-> <<[import |-> lower_name]>> \o rest.imports,
             routers |-> <<[router |-> lower_name,
                            prefix |-> s_slash \o lower_name \o s_s,
                            tags |-> lower_name \o s_s]>> \o rest.routers]

\* generator.py 881: the text of api.py, line by line
api_router_text(imports, routers) ==
    <<[text |-> "from fastapi import APIRouter"]>> \o imports
       \o <<[text |-> ""], [text |-> "api_router = APIRouter()"], [text |-> ""]>> \o routers

EntitiesFirst(models) ==
    LET lines == router_lines(models)
    IN api_router_text(lines.imports \o <<[import |-> s_upload], [import |-> s_login]>>,
                       lines.routers \o <<[router |-> s_upload, tags |-> s_upload],
                                          [router |-> s_login, tags |-> s_login]>>)

api_router_content(models) ==
    LET lines == router_lines(models)
    IN api_router_text(<<[import |-> s_upload], [import |-> s_login]>> \o lines.imports,
                       <<[router |-> s_upload, tags |-> s_upload],
                         [router |-> s_login, tags |-> s_login]>> \o lines.routers)

\* generator.py 864-883
update_api_router(files, models, api_file_path) ==
    write_text(files, api_file_path, api_router_content(models))

\* generator.py 840-854: the labels of one field in the two locales
ZhFollowsEn(field) ==
    LET label_en == title(replace(field.name, "_", " "))
        translations == Get(field, "translations", EmptyDict)
        en == IF "en" \in DOMAIN translations THEN translations["en"] ELSE label_en
    IN [en |-> en,
        zh |-> IF "zh" \in DOMAIN translations THEN translations["zh"] ELSE en]

field_labels(field) ==
    LET label_en == title(replace(field.name, "_", " "))
        label_zh == label_en
        translations == Get(field, "translations", EmptyDict)
    IN [en |-> IF "en" \in DOMAIN translations THEN translations["en"] ELSE label_en,
        zh |-> IF "zh" \in DOMAIN translations THEN translations["zh"] ELSE label_zh]

\* generator.py 824-857: the entry of one model in the file of one locale;
\* fields is a dict keyed by field name
locale_model(model, locale) ==
    [name |-> Get(Get(model, "translations", EmptyDict), locale, model.name),
     fields |-> [n \in {model.fields[i].name : i \in DOMAIN model.fields} |->
                   LET i == CHOOSE i \in DOMAIN model.fields :
                               /\ model.fields[i].name = n
                               /\ \A j \in (i + 1)..Len(model.fields) : model.fields[j].name # n
                   IN field_labels(model.fields[i])[locale]]]

\* generator.py 771-861: the content of one locale file; models is a dict
\* keyed by lower_name, so a later model of the same key replaces an earlier
locale_content(models, locale) ==
    [common |-> locale,
     models |-> [n \in {models[i].lower_name : i \in DOMAIN models} |->
                   LET i == CHOOSE i \in DOMAIN models :
                               /\ models[i].lower_name = n
                               /\ \A j \in (i + 1)..Len(models) : models[j].lower_name # n
                   IN locale_model(models[i], locale)]]

generate_locale_files(files, models) ==
    write_text(write_text(files, locale_path(s_en), locale_content(models, "en")),
               locale_path(s_zh), locale_content(models, "zh"))

\* generator.py 761: the models of the aggregate outputs
api_models_of(models) == SelectSeq(models, LAMBDA m : ~m.is_link_table)

\* generator.py 769: the models generate_locale_files is given
locale_models_of(models) == models

\* generator.py 760-769: api.py, Routes.tsx, Menu.tsx and the locale files
EmitAggregate ==
    /\ pc = "aggregate"
    /\ LET api_models == api_models_of(found_models)
           result == attempt(<<[path |-> api_router_path], [path |-> routes_path],
                               [path |-> menu_path], [path |-> locale_path(s_en)],
                               [path |-> locale_path(s_zh)]>>)
           f1 == update_api_router(fs, api_models, api_router_path)
           f2 == generate_file(f1, "frontend_routes.tsx.j2", [models |-> api_models], routes_path)
           f3 == generate_file(f2, "frontend_menu.tsx.j2", [models |-> api_models], menu_path)
           f4 == write_text(f3, locale_path(s_en),
                            locale_content(locale_models_of(found_models), "en"))
           f5 == generate_locale_files(f3, locale_models_of(found_models))
       IN /\ fs' = <<fs, f1, f2, f3, f4, f5>>[Len(result.done) + 1]
          /\ pc' = IF result.raised THEN "raised" ELSE "done"
    /\ UNCHANGED <<project, env, idx, found_models, fs_prev, rendered, log, run>>

\* the sync command is given again, on the same project: generate_code starts
\* over in a new process, on the files the previous run left
Rerun ==
    /\ pc = "done"
    /\ run < MaxRuns
    /\ run' = run + 1
    /\ fs_prev' = fs
    /\ pc' = "start"
    /\ idx' = 1
    /\ found_models' = <<>>
    /\ rendered' = <<>>
    /\ log' = {}
    /\ UNCHANGED <<project, env, fs>>

-----------------------------------------------------------------------------
(* Specifications *)

\* a project whose backend directory exists and whose files can be written
plain_environment ==
    [backend_exists |-> TRUE, unwritable |-> {}, config |-> EmptyDict,
     backend_env |-> NoFile, frontend_env |-> NoFile]

InitRun ==
    /\ pc = "start"
    /\ idx = 1
    /\ found_models = <<>>
    /\ fs = initial_files(env)
    /\ fs_prev = EmptyDict
    /\ rendered = <<>>
    /\ log = {}
    /\ run = 1

Init == project \in Projects /\ env = plain_environment /\ InitRun

InitFields == project \in FieldProjects /\ env = plain_environment /\ InitRun

\* the projects of one module, in the project directories a run may find: the
\* backend directory there or missing, and one generated file not writable
Environments ==
    { [plain_environment EXCEPT !.backend_exists = b, !.unwritable = u] :
        b \in BOOLEAN,
        u \in { {}, {api_router_path}, {routes_path}, {endpoint_path(s_upload)},
                {locale_path(s_zh)},
                {service_path([lower_name |-> lower(s_Category)])},
                {page_detail_path([lower_name |-> lower(s_Product)])} } }

InitEnvironments ==
    /\ project \in { q \in Projects : Len(q) = 1 }
    /\ env \in Environments
    /\ InitRun

\* the configurations of site_config.json: none, and one with every key
Configs ==
    { EmptyDict,
      [project_name |-> <<"S","h","o","p">>, database_url |-> <<"s","q","l","i","t","e",":","/","/","/","d","b">>, secret_key |-> <<"k","1">>,
       first_superuser |-> <<"a","@","b",".","c">>, allowed_origins |-> <<<<"h","t","t","p",":","/","/","a">>, <<"h","t","t","p",":","/","/","b">>>>,
       api_url |-> <<"h","t","t","p",":","/","/","x","/","a","p","i">>] }

\* what backend/.env may hold before the first run
BackendEnvFiles ==
    { NoFile,
      EnvFile(<<>>),
      EnvFile(<<"#"," ","l","o","c","a","l","\n","P","R","O","J","E","C","T","_","N","A","M","E","=","O","l","d","\n","D","E","B","U","G","=","1","\n">>),
      EnvFile(<<" ","S","E","C","R","E","T","_","K","E","Y"," ","="," ","a","\n","e","x","p","o","r","t"," ","X">>),
      EnvFile(<<"S","E","C","R","E","T","_","K","E","Y","=","a","\n","S","E","C","R","E","T","_","K","E","Y","=","b">>),
      EnvFile(<<"#","S","E","C","R","E","T","_","K","E","Y","=","a","\n","\n","D","E","B","U","G","=","1">>) }

\* what frontend/.env may hold before the first run
FrontendEnvFiles ==
    { NoFile,
      EnvFile(<<>>),
      EnvFile(<<"V","I","T","E","_","A","P","I","_","U","R","L","=","h","t","t","p",":","/","/","o","l","d","\n","V","I","T","E","_","X","=","1","\n">>),
      EnvFile(<<"V","I","T","E","_","X","=","1">>),
      EnvFile(<<"#"," ","V","I","T","E","_","A","P","I","_","U","R","L"," ","i","s"," ","s","e","t"," ","o","n"," ","d","e","p","l","o","y","\n">>),
      EnvFile(<<"V","I","T","E","_","A","P","I","_","U","R","L","=","/","a","p","i","/","v","1">>) }

\* the project directories whose .env files and configuration differ
EnvFileEnvironments ==
    { [plain_environment EXCEPT !.config = c, !.backend_env = b, !.frontend_env = f] :
        c \in Configs, b \in BackendEnvFiles, f \in FrontendEnvFiles }

InitEnvFiles ==
    /\ project \in { q \in Projects : Len(q) = 1 /\ q[1].module_name = "product_tag" }
    /\ env \in EnvFileEnvironments
    /\ InitRun

InitDeclarations == project \in DeclarationProjects /\ env = plain_environment /\ InitRun

Next ==
    \/ SyncEnvFiles
    \/ Discover
    \/ EnrichForeignKeys
    \/ SynthesizeRelations
    \/ EmitEntity
    \/ SyncEndpoints
    \/ EmitAggregate
    \/ Rerun

\* generate_code on projects of several modules
Spec == Init /\ [][Next]_vars

\* generate_code on one class with any fields of FieldPool
SpecFields == InitFields /\ [][Next]_vars

\* generate_code on one class with fields of every type, or with any
\* __table_args__
SpecDeclarations == InitDeclarations /\ [][Next]_vars

\* generate_code in project directories with any .env files and configuration
SpecEnvFiles == InitEnvFiles /\ [][Next]_vars

\* generate_code in project directories that lack the backend directory or
\* hold a file that cannot be written
SpecEnvironments == InitEnvironments /\ [][Next]_vars

-----------------------------------------------------------------------------
(* Properties *)

\* positions of generate_code after the loop named has run to its end
RegistryBuilt == pc \in {"enrich", "link", "emit", "endpoints", "aggregate", "done"}
Enriched == pc \in {"link", "emit", "endpoints", "aggregate", "done"}
Linked == pc \in {"emit", "endpoints", "aggregate", "done"}

\* the class a descriptor of found_models was built from
declared_class(model) ==
    LET module == CHOOSE m \in {project[i] : i \in DOMAIN project} :
                     m.module_name = model.module_name
    IN CHOOSE c \in {module.members[i] : i \in DOMAIN module.members} : c.name = model.name

search_flags(model) == {i \in DOMAIN model.fields : model.fields[i].is_search_field}

\* C1: after the registry build every entity with at least one field has
\* exactly one field descriptor with is_search_field = true.
C1_UniqueSearchField ==
    RegistryBuilt =>
        \A m \in DOMAIN found_models :
            Len(found_models[m].fields) >= 1 => Cardinality(search_flags(found_models[m])) = 1

\* a field whose name is <x>_id with x non-empty, other than `id`
IsForeignKeyName(name) == endswith(name, s_suffix_id) /\ name # s_id /\ Len(name) > Len(s_suffix_id)

GuessedTarget(name) == capitalize(SubSeq(name, 1, Len(name) - Len(s_suffix_id)))

\* C2: after foreign-key enrichment, a field <x>_id whose guessed target
\* x.capitalize() names a discovered entity has that entity's search_field as
\* the label_field of its fk_info, and the foreign_keys list shows the same.
C2_ForeignKeyLabelResolved ==
    Enriched =>
        \A m \in DOMAIN found_models : \A i \in DOMAIN found_models[m].fields :
            LET field == found_models[m].fields[i]
            IN IsForeignKeyName(field.name) =>
                 \A t \in DOMAIN found_models :
                    found_models[t].name = GuessedTarget(field.name) =>
                       /\ field.fk_info.label_field = found_models[t].search_field
                       /\ \E k \in DOMAIN found_models[m].foreign_keys :
                            /\ foreign_keys_of(found_models[m])[k].name = field.name
                            /\ foreign_keys_of(found_models[m])[k].label_field
                                 = found_models[t].search_field

\* a finished run resolved a reference to a search field other than the guess
C2_Witness ==
    /\ pc = "done"
    /\ \E m, t \in DOMAIN found_models : \E i \in DOMAIN found_models[m].fields :
         /\ IsForeignKeyName(found_models[m].fields[i].name)
         /\ found_models[t].name = GuessedTarget(found_models[m].fields[i].name)
         /\ found_models[t].search_field # s_name
         /\ found_models[m].fields[i].fk_info.label_field = found_models[t].search_field

\* the import lines and the include_router lines of a text of api.py
imports_of(content) == SelectSeq(content, LAMBDA line : "import" \in DOMAIN line)
routers_of(content) == SelectSeq(content, LAMBDA line : "router" \in DOMAIN line)

\* the entity lines of api.py: those after the upload and login lines
entity_lines(lines) == SubSeq(lines, 3, Len(lines))

IsNonLinkName(lower_name) ==
    \E m \in DOMAIN found_models :
        ~found_models[m].is_link_table /\ found_models[m].lower_name = lower_name

\* C3: no artifact is rendered for a link table, every entity line of api.py
\* is the line of a non-link entity, and the model lists of Routes.tsx and
\* Menu.tsx hold no link table.
C3_LinkTablesNotEmitted ==
    /\ \A r \in DOMAIN rendered : ~found_models[rendered[r].model].is_link_table
    /\ pc = "done" =>
         /\ \A k \in DOMAIN entity_lines(imports_of(fs[api_router_path])) :
               IsNonLinkName(entity_lines(imports_of(fs[api_router_path]))[k].import)
         /\ \A k \in DOMAIN entity_lines(routers_of(fs[api_router_path])) :
               IsNonLinkName(entity_lines(routers_of(fs[api_router_path]))[k].router)
         /\ \A path \in {routes_path, menu_path} :
               \A k \in DOMAIN fs[path].context.models :
                  ~fs[path].context.models[k].is_link_table

\* a finished run on a link table and an entity that is none
C3_Witness ==
    /\ pc = "done"
    /\ \E l, m \in DOMAIN found_models :
         /\ found_models[l].is_link_table
         /\ ~found_models[m].is_link_table
         /\ \E r \in DOMAIN rendered : rendered[r].model = m

\* the virtual relations of a descriptor
m2m_fields_of(model) == Get(model, "m2m_fields", <<>>)

\* a link table with exactly two foreign keys, both targets in the registry
IsResolvedLink(l) ==
    /\ found_models[l].is_link_table
    /\ Len(found_models[l].foreign_keys) = 2
    /\ model_map(found_models, foreign_keys_of(found_models[l])[1].target_model) # 0
    /\ model_map(found_models, foreign_keys_of(found_models[l])[2].target_model) # 0

\* C4: after link-table synthesis the source S of a link table L with two
\* resolved foreign keys has the relation <T.lower_name>_ids to T, labelled by
\* T's search_field, through L and its two key fields; no entity other than S
\* has a relation through L.
C4_RelationOnSource ==
    Linked =>
        \A l \in DOMAIN found_models :
            IsResolvedLink(l) =>
                LET L == found_models[l]
                    fks == foreign_keys_of(L)
                    s == model_map(found_models, fks[1].target_model)
                    T == found_models[model_map(found_models, fks[2].target_model)]
                IN /\ \E k \in DOMAIN m2m_fields_of(found_models[s]) :
                        LET r == m2m_fields_of(found_models[s])[k]
                        IN /\ r.name = T.lower_name \o s_suffix_ids
                           /\ r.target_model = T.name
                           /\ r.label_field = T.search_field
                           /\ r.link_model = L.name
                           /\ r.link_module = L.module_name
                           /\ r.source_fk_field = L.fields[L.foreign_keys[1]].name
                           /\ r.target_fk_field = L.fields[L.foreign_keys[2]].name
                   /\ \A d \in DOMAIN found_models \ {s} :
                        \A k \in DOMAIN m2m_fields_of(found_models[d]) :
                            m2m_fields_of(found_models[d])[k].link_model # L.name

\* a finished run on a link table between two entities other than itself,
\* whose target's search field is not the guess
C4_Witness ==
    /\ pc = "done"
    /\ \E l \in DOMAIN found_models :
         /\ IsResolvedLink(l)
         /\ LET fks == foreign_keys_of(found_models[l])
                s == model_map(found_models, fks[1].target_model)
                t == model_map(found_models, fks[2].target_model)
            IN /\ s # t /\ s # l /\ t # l
               /\ found_models[t].search_field # s_name
               /\ Len(m2m_fields_of(found_models[s])) >= 1

SameDeclaredFields(model, n) ==
    /\ n = Len(declared_class(model).fields)
    /\ \A i \in 1..n : model.fields[i].name = declared_class(model).fields[i].name

DeclaresPassword(model) ==
    \E i \in DOMAIN declared_class(model).fields :
        declared_class(model).fields[i].name = s_password

\* C6: User without a declared password field has exactly one field password,
\* after its declared fields, writable on create and update, not readable,
\* optional on update only, no search field and no foreign key; a User that
\* declares password, and every other entity, has its declared fields only.
C6_UserPasswordField ==
    \A m \in DOMAIN found_models :
        LET model == found_models[m]
            last == model.fields[Len(model.fields)]
        IN IF model.name = s_User /\ ~DeclaresPassword(model)
           THEN /\ SameDeclaredFields(model, Len(model.fields) - 1)
                /\ last.name = s_password
                /\ contains(last.permissions, <<"c">>)
                /\ contains(last.permissions, <<"u">>)
                /\ ~contains(last.permissions, <<"r">>)
                /\ last.update_optional = TRUE
                /\ last.create_optional = FALSE
                /\ last.is_search_field = FALSE
                /\ ~Truthy(last.fk_info)
           ELSE SameDeclaredFields(model, Len(model.fields))

\* a finished run on a User that declares two or more fields, none password
C6_Witness ==
    /\ pc = "done"
    /\ \E m \in DOMAIN found_models :
         /\ found_models[m].name = s_User
         /\ ~DeclaresPassword(found_models[m])
         /\ Len(found_models[m].fields) >= 3
         /\ found_models[m].fields[Len(found_models[m].fields)].name = s_password

\* the eight artifacts of a declared class are in the generated files, and
\* api.py imports its endpoint
IsEmitted(model_cls) ==
    LET model == [name |-> model_cls.name, lower_name |-> lower(model_cls.name)]
    IN /\ \A a \in DOMAIN entity_artifacts(model) :
            entity_artifacts(model)[a].path \in DOMAIN fs
       /\ api_router_path \in DOMAIN fs
       /\ \E k \in DOMAIN imports_of(fs[api_router_path]) :
            imports_of(fs[api_router_path])[k].import = model.lower_name

\* C7: a module that fails to load, whatever the error, is logged and skipped:
\* the run is not aborted, and it ends with the artifacts and the api.py line
\* of every non-link entity of the modules that load.
C7_LoadFailureSkipped ==
    /\ pc # "raised"
    /\ pc = "done" =>
         \A i \in DOMAIN project :
            IF project[i].load # "ok"
            THEN project[i].module_name \in log
            ELSE \A k \in DOMAIN project[i].members :
                    LET model_cls == project[i].members[k]
                    IN (model_cls.table
                        /\ ~Get(class_site_props(model_cls), "is_link_table", FALSE))
                       => IsEmitted(model_cls)

\* C8: a second run on unchanged declarations leaves every generated file
\* with the content the first run gave it.
C8_Idempotent ==
    (pc = "done" /\ run >= 2) =>
        /\ DOMAIN fs = DOMAIN fs_prev
        /\ \A path \in DOMAIN fs \ {backend_env_path, frontend_env_path} :
              fs[path] = fs_prev[path]

\* a second run that emitted the artifacts of an entity and the aggregates
C8_Witness ==
    /\ pc = "done"
    /\ run >= 2
    /\ rendered # <<>>
    /\ {api_router_path, routes_path, menu_path, locale_path(s_en), locale_path(s_zh)}
          \subseteq DOMAIN fs

\* the label derived from a field name: an underscore gives a space, a letter
\* that starts a word is upper-cased and the other letters are lower-cased (a
\* word is a run of letters, so a letter after a digit starts one)
DerivedLabel(name) ==
    [i \in 1..Len(name) |->
        IF name[i] = "_" THEN " "
        ELSE IF IsAlpha(name[i]) /\ (i = 1 \/ ~IsAlpha(name[i - 1]))
        THEN upper_char(name[i])
        ELSE lower_char(name[i])]

\* the label a locale file gives a field of a model
WrittenLabel(locale, model, field) ==
    fs[locale_path(locale)].models[model.lower_name].fields[field.name]

ExpectedLabel(locale_key, field) ==
    LET translations == Get(field, "translations", EmptyDict)
    IN IF locale_key \in DOMAIN translations
       THEN translations[locale_key]
       ELSE DerivedLabel(field.name)

\* C9: in each locale file the label of a field is its translation for that
\* locale when it has one, and the label derived from its name otherwise,
\* whatever the other locale has.
C9_LocaleLabels ==
    pc = "done" =>
        \A m \in DOMAIN found_models : \A i \in DOMAIN found_models[m].fields :
            LET field == found_models[m].fields[i]
            IN /\ WrittenLabel(s_en, found_models[m], field) = ExpectedLabel("en", field)
               /\ WrittenLabel(s_zh, found_models[m], field) = ExpectedLabel("zh", field)

\* a finished run on a field translated for zh only and one for en only
C9_Witness ==
    /\ pc = "done"
    /\ \E m \in DOMAIN found_models : \E i, j \in DOMAIN found_models[m].fields :
         LET zh_only == found_models[m].fields[i]
             en_only == found_models[m].fields[j]
         IN /\ DOMAIN Get(zh_only, "translations", EmptyDict) = {"zh"}
            /\ DOMAIN Get(en_only, "translations", EmptyDict) = {"en"}
            /\ WrittenLabel(s_en, found_models[m], zh_only) = DerivedLabel(zh_only.name)
            /\ WrittenLabel(s_zh, found_models[m], zh_only) # DerivedLabel(zh_only.name)
            /\ WrittenLabel(s_zh, found_models[m], en_only) = DerivedLabel(en_only.name)
            /\ WrittenLabel(s_en, found_models[m], en_only) # DerivedLabel(en_only.name)

\* C10: the models section of each locale file has a key for exactly the
\* non-link entities.
C10_LocaleModelsNonLink ==
    pc = "done" =>
        \A locale \in {s_en, s_zh} :
            DOMAIN fs[locale_path(locale)].models
               = { found_models[m].lower_name :
                     m \in {k \in DOMAIN found_models : ~found_models[k].is_link_table} }

\* some entity other than the one at position l holds a relation through it
IsReferencedLink(l) ==
    \E d \in DOMAIN found_models \ {l} :
        \E k \in DOMAIN m2m_fields_of(found_models[d]) :
            m2m_fields_of(found_models[d])[k].link_model = found_models[l].name

AnnotatedFields(model) ==
    { i \in DOMAIN declared_class(model).fields :
        Get(field_site_props(declared_class(model).fields[i]), "is_search_field", FALSE) = TRUE }

PreferredFields(model) ==
    { i \in DOMAIN declared_class(model).fields :
        \E c \in DOMAIN guess_candidates : guess_candidates[c] = model.fields[i].name }

PlainStringFields(model) ==
    { i \in DOMAIN declared_class(model).fields :
        model.fields[i].ui_type = "str" /\ ~model.fields[i].is_enum }

Least(S) == CHOOSE i \in S : \A j \in S : i <= j

\* the declared field named by the earliest name of the preference list that
\* names one
MostPreferred(model) ==
    CHOOSE i \in PreferredFields(model) :
        \E c \in DOMAIN guess_candidates :
            /\ guess_candidates[c] = model.fields[i].name
            /\ \A b \in 1..(c - 1) : \A j \in PreferredFields(model) :
                   guess_candidates[b] # model.fields[j].name

\* C12 as stated: the search field is an annotated field, else the first
\* declared field with a name of the preference list, else the first declared
\* plain string field, else id.
C12_SearchFieldByDeclarationOrder ==
    \A m \in DOMAIN found_models :
        LET model == found_models[m]
        IN IF AnnotatedFields(model) # {}
           THEN \E i \in AnnotatedFields(model) : model.search_field = model.fields[i].name
           ELSE IF PreferredFields(model) # {}
           THEN model.search_field = model.fields[Least(PreferredFields(model))].name
           ELSE IF PlainStringFields(model) # {}
           THEN model.search_field = model.fields[Least(PlainStringFields(model))].name
           ELSE model.search_field = s_id

\* C12, amended: the search field is the first declared annotated field, else
\* the field named by the earliest name of the preference list that names a
\* declared field, else the first declared plain string field, else id.
C12_SearchFieldByPreference ==
    \A m \in DOMAIN found_models :
        LET model == found_models[m]
        IN IF AnnotatedFields(model) # {}
           THEN model.search_field = model.fields[Least(AnnotatedFields(model))].name
           ELSE IF PreferredFields(model) # {}
           THEN model.search_field = model.fields[MostPreferred(model)].name
           ELSE IF PlainStringFields(model) # {}
           THEN model.search_field = model.fields[Least(PlainStringFields(model))].name
           ELSE model.search_field = s_id

\* a finished run on an entity without annotated field whose first declared
\* field of the preference list is not the one the list prefers
C12_Witness ==
    /\ pc = "done"
    /\ \E m \in DOMAIN found_models :
         /\ AnnotatedFields(found_models[m]) = {}
         /\ PreferredFields(found_models[m]) # {}
         /\ MostPreferred(found_models[m]) # Least(PreferredFields(found_models[m]))
         /\ found_models[m].search_field
              = found_models[m].fields[MostPreferred(found_models[m])].name

\* the entities update_api_router is given, in discovery order
RoutedEntities == SelectSeq(found_models, LAMBDA m : ~m.is_link_table)

\* C13: api.py lists its import lines and then its include_router lines, each
\* as upload, login and one entry per given entity in discovery order; an
\* entity router has prefix /<lower_name>s and tag <lower_name>s, and the two
\* fixed routers have no prefix.
C13_RouteRegistryOrder ==
    pc = "done" =>
        LET content == fs[api_router_path]
            imports == imports_of(content)
            routers == routers_of(content)
            n == Len(RoutedEntities)
        IN /\ \A i, j \in DOMAIN content :
                ("import" \in DOMAIN content[i] /\ "router" \in DOMAIN content[j]) => i < j
           /\ Len(imports) = n + 2 /\ Len(routers) = n + 2
           /\ imports[1].import = s_upload /\ imports[2].import = s_login
           /\ routers[1] = [router |-> s_upload, tags |-> s_upload]
           /\ routers[2] = [router |-> s_login, tags |-> s_login]
           /\ \A k \in 1..n :
                /\ imports[k + 2].import = RoutedEntities[k].lower_name
                /\ routers[k + 2].router = RoutedEntities[k].lower_name
                /\ routers[k + 2].prefix = <<"/">> \o RoutedEntities[k].lower_name \o <<"s">>
                /\ routers[k + 2].tags = RoutedEntities[k].lower_name \o <<"s">>

\* a finished run that gave update_api_router two or more entities
C13_Witness ==
    /\ pc = "done"
    /\ Len(RoutedEntities) >= 2
    /\ Len(routers_of(fs[api_router_path])) = Len(RoutedEntities) + 2

\* a finished run that gave update_api_router the empty list
C13_EmptyListReached ==
    /\ pc = "done"
    /\ RoutedEntities = <<>>
    /\ Len(routers_of(fs[api_router_path])) = 2

\* the paths generate_file is called on for the discovered entities
EntityArtifactPaths ==
    { entity_artifacts(found_models[m])[a].path :
        m \in {k \in DOMAIN found_models : ~found_models[k].is_link_table}, a \in 1..8 }

\* C14: a write that fails in generate_file or update_api_router ends the run
\* with the exception: the run gets past no phase that had to write a path
\* that cannot be written, it does not finish, no artifact that could not be
\* written is reported as generated, and none is in the generated files.
C14_WriteFailureSurfaces ==
    /\ \A r \in DOMAIN rendered : ~raises_on_write(rendered[r].path)
    /\ \A path \in env.unwritable : path \notin DOMAIN fs
    /\ pc \in {"endpoints", "aggregate", "done"} =>
          \A path \in EntityArtifactPaths : ~raises_on_write(path)
    /\ pc \in {"aggregate", "done"} => ~raises_on_write(endpoint_path(s_upload))
    /\ pc = "done" =>
          \A path \in {api_router_path, routes_path, menu_path} : ~raises_on_write(path)

\* a run on modules that load, ended by the exception of a write after it
\* had generated other artifacts
C14_Witness ==
    /\ pc = "raised"
    /\ \A i \in DOMAIN project : project[i].load = "ok"
    /\ env.unwritable # {}
    /\ rendered # <<>>
    /\ \E path \in env.unwritable : path \in EntityArtifactPaths \cup {api_router_path}

\* C15: a link table with one foreign key, or with three or more, is the
\* link_model of no virtual relation of any entity.
C15_OnlyTwoKeyLinks ==
    Linked =>
        \A l \in DOMAIN found_models :
            (found_models[l].is_link_table /\ Len(found_models[l].foreign_keys) # 2) =>
                \A d \in DOMAIN found_models : \A k \in DOMAIN m2m_fields_of(found_models[d]) :
                    m2m_fields_of(found_models[d])[k].link_model # found_models[l].name

\* the order of the phases of a run
PhaseOrder ==
    { <<"start", "discover">>, <<"discover", "enrich">>, <<"enrich", "link">>,
      <<"link", "emit">>, <<"emit", "endpoints">>, <<"endpoints", "aggregate">>,
      <<"aggregate", "done">>, <<"done", "start">> }

\* a step of a run: a phase is left for the next one only, and a loop only
\* after its last entity; the registry changes in the first three phases
\* only, relations are added in link-table synthesis only, and entity
\* artifacts are generated in per-entity emission only
OrderedStep ==
    /\ pc' # pc => (pc' \in {"raised", "returned"} \/ <<pc, pc'>> \in PhaseOrder)
    /\ (pc = "discover" /\ pc' = "enrich") => idx > Len(project)
    /\ (pc \in {"enrich", "link", "emit"} /\ <<pc, pc'>> \in PhaseOrder) => idx > Len(found_models)
    /\ Len(found_models') > Len(found_models) => pc = "discover"
    /\ (pc # "link" /\ pc # "done") =>
          \A m \in DOMAIN found_models :
             m \in DOMAIN found_models' => m2m_fields_of(found_models'[m]) = m2m_fields_of(found_models[m])
    /\ Len(rendered') > Len(rendered) => pc = "emit"

\* every relation is labelled by the resolved search field of its target
RelationsLabelled ==
    \A m \in DOMAIN found_models : \A k \in DOMAIN m2m_fields_of(found_models[m]) :
        LET r == m2m_fields_of(found_models[m])[k]
        IN r.label_field = found_models[model_map(found_models, r.target_model)].search_field

\* the rendered context of the source of the link table at l holds a relation
\* through it
RenderedWithRelation(l) ==
    LET s == model_map(found_models, foreign_keys_of(found_models[l])[1].target_model)
        context == fs[schema_path(found_models[s])].context
    IN /\ m2m_fields_of(context.model) = m2m_fields_of(found_models[s])
       /\ \E k \in DOMAIN m2m_fields_of(context.model) :
            m2m_fields_of(context.model)[k].link_model = found_models[l].name

\* C16: the phases of a run execute in order, each after the previous one has
\* processed every entity; so every relation carries the resolved search_field
\* of its target, and the context rendered for an entity holds all of its
\* relations, whatever the discovery order.
C16_PhasesInOrder ==
    /\ [][OrderedStep]_vars
    /\ [](Linked => RelationsLabelled)
    /\ [](pc = "done" =>
            \A l \in DOMAIN found_models :
               (IsResolvedLink(l)
                /\ ~found_models[model_map(found_models,
                        foreign_keys_of(found_models[l])[1].target_model)].is_link_table)
               => RenderedWithRelation(l))

\* a finished run that discovered a link table before its source and its
\* target, the target having a search field other than the guess
C16_Witness ==
    /\ pc = "done"
    /\ \E l \in DOMAIN found_models :
         /\ IsResolvedLink(l)
         /\ LET fks == foreign_keys_of(found_models[l])
                s == model_map(found_models, fks[1].target_model)
                t == model_map(found_models, fks[2].target_model)
            IN /\ l < s /\ l < t /\ s # t
               /\ found_models[t].search_field # s_name
               /\ RenderedWithRelation(l)

\* C17: a run started in a project without backend directory returns after
\* its report, having created no directory and written no file.
C17_MissingBackendReturns ==
    (~env.backend_exists /\ run = 1) =>
        /\ pc \in {"start", "returned"}
        /\ DOMAIN fs = {}

\* C18: no two descriptors of the registry have the same entity name, and
\* api.py has no two import lines and no two include_router lines for the
\* same entity.
C18_OneDescriptorPerModel ==
    /\ RegistryBuilt =>
          \A i, j \in DOMAIN found_models :
             i # j => found_models[i].name # found_models[j].name
    /\ pc = "done" =>
          /\ \A i, j \in DOMAIN imports_of(fs[api_router_path]) :
                i # j => imports_of(fs[api_router_path])[i] # imports_of(fs[api_router_path])[j]
          /\ \A i, j \in DOMAIN routers_of(fs[api_router_path]) :
                i # j => routers_of(fs[api_router_path])[i] # routers_of(fs[api_router_path])[j]

\* C19: the search_field of an entity is the name of one of its fields, and
\* that field has is_search_field = true.
C19_SearchFieldIsOwnField ==
    \A m \in DOMAIN found_models :
        \E i \in DOMAIN found_models[m].fields :
            /\ found_models[m].fields[i].name = found_models[m].search_field
            /\ found_models[m].fields[i].is_search_field

\* C20: after link-table synthesis the virtual relations of an entity have
\* pairwise distinct names, and none has the name of a field of the entity.
C20_RelationNamesDistinct ==
    Linked =>
        \A m \in DOMAIN found_models :
            LET relations == m2m_fields_of(found_models[m])
            IN /\ \A i, j \in DOMAIN relations : i # j => relations[i].name # relations[j].name
               /\ \A i \in DOMAIN relations : \A f \in DOMAIN found_models[m].fields :
                     relations[i].name # found_models[m].fields[f].name

\* the prefix x of a field name <x>_id
Prefix(name) == SubSeq(name, 1, Len(name) - Len(s_suffix_id))

\* the foreign-key references of a descriptor are those of the fields named
\* <x>_id, whatever their declared type, and foreign_keys lists them in
\* declaration order
ReferencesByName(model, target(_)) ==
    /\ \A i \in DOMAIN model.fields :
          LET field == model.fields[i]
          IN /\ Truthy(field.fk_info) <=> IsForeignKeyName(field.name)
             /\ Truthy(field.fk_info) =>
                   /\ field.fk_info.name = field.name
                   /\ field.fk_info.target_model = target(Prefix(field.name))
    /\ model.foreign_keys = Positions(model.fields, LAMBDA f : IsForeignKeyName(f.name))
    /\ \A i, j \in DOMAIN model.foreign_keys : i < j => model.foreign_keys[i] < model.foreign_keys[j]

ResolvedReferences ==
    {r \in (DOMAIN found_models) \X (1..(MaxFields + MaxTypedFields + 1)) :
        /\ r[2] \in DOMAIN found_models[r[1]].fields
        /\ IsForeignKeyName(found_models[r[1]].fields[r[2]].name)
        /\ model_map(found_models, GuessedTarget(found_models[r[1]].fields[r[2]].name)) # 0}

\* the presentable fields of an entity: readable, not password, not <x>_id
IsPresentable(field) ==
    /\ \E i \in DOMAIN field.permissions : field.permissions[i] = "r"
    /\ field.name # s_password
    /\ ~IsForeignKeyName(field.name)

IsUnresolved(field) ==
    /\ IsForeignKeyName(field.name)
    /\ model_map(found_models, GuessedTarget(field.name)) = 0

\* an enrichment or synthesis step raises nothing, and an enrichment step
\* changes only the references of the entity it is at that have a registered
\* target
QuietStep ==
    /\ pc \in {"enrich", "link"} => pc' # "raised"
    /\ (pc = "enrich" /\ idx <= Len(found_models)) =>
          /\ Len(found_models') = Len(found_models)
          /\ \A m \in DOMAIN found_models :
                IF m # idx THEN found_models'[m] = found_models[m]
                ELSE /\ [found_models'[m] EXCEPT !.fields = <<>>]
                           = [found_models[m] EXCEPT !.fields = <<>>]
                     /\ Len(found_models'[m].fields) = Len(found_models[m].fields)
                     /\ \A p \in DOMAIN found_models[m].fields :
                           (~IsForeignKeyName(found_models[m].fields[p].name)
                            \/ IsUnresolved(found_models[m].fields[p]))
                           => found_models'[m].fields[p] = found_models[m].fields[p]
    /\ (pc = "link" /\ idx <= Len(found_models)) =>
          LET fks == foreign_keys_of(found_models[idx])
          IN (Len(fks) >= 2 /\ \E k \in 1..2 : model_map(found_models, fks[k].target_model) = 0)
                => found_models' = found_models

\* C23: a reference whose guessed target is not registered raises no error,
\* keeps the label `name` and gets no presentable fields; enriching it changes
\* no other descriptor and the run goes on; no relation comes from a link
\* table one of whose first two targets is not registered.
C23_UnresolvedReferenceSilent ==
    /\ [][QuietStep]_vars
    /\ [](RegistryBuilt =>
            \A m \in DOMAIN found_models : \A p \in DOMAIN found_models[m].fields :
                IsUnresolved(found_models[m].fields[p]) =>
                    /\ found_models[m].fields[p].fk_info.label_field = s_name
                    /\ "target_readable_fields" \notin DOMAIN found_models[m].fields[p].fk_info)
    /\ [](\A m \in DOMAIN found_models :
             \A k \in DOMAIN m2m_fields_of(found_models[m]) :
                LET relation == m2m_fields_of(found_models[m])[k]
                IN /\ model_map(found_models, GuessedTarget(relation.source_fk_field)) # 0
                   /\ model_map(found_models, GuessedTarget(relation.target_fk_field)) # 0)

\* a finished run whose registry holds Product and the link table Audit
\* (product_id, owner_id) but no Owner: Audit was emitted with owner_id
\* labelled `name`, and Product got no relation through Audit
C23_Witness ==
    /\ pc = "done"
    /\ \E l, s \in DOMAIN found_models :
          /\ found_models[l].name = s_Audit
          /\ found_models[l].is_link_table
          /\ \E p \in DOMAIN found_models[l].fields :
                /\ IsUnresolved(found_models[l].fields[p])
                /\ found_models[l].fields[p].fk_info = foreign_keys_of(found_models[l])[2]
          /\ s = model_map(found_models, foreign_keys_of(found_models[l])[1].target_model)
          /\ s # 0
          /\ \A k \in DOMAIN m2m_fields_of(found_models[s]) :
                m2m_fields_of(found_models[s])[k].link_model # s_Audit

\* the entity-level metadata of a class: site_props of info of a dict
\* __table_args__, empty when the dict, info or site_props is missing
EntityMetadata(model_cls) ==
    IF model_cls.table_args_kind # "dict" THEN EmptyDict
    ELSE IF "info" \notin DOMAIN model_cls.table_args THEN EmptyDict
    ELSE IF "site_props" \notin DOMAIN model_cls.table_args.info THEN EmptyDict
    ELSE model_cls.table_args.info.site_props

CarriesLinkTableFlag(model_cls) ==
    /\ "is_link_table" \in DOMAIN EntityMetadata(model_cls)
    /\ EntityMetadata(model_cls).is_link_table

\* the eight artifacts of the entity are among the generated files
HasEightArtifacts(model) ==
    /\ Cardinality({entity_artifacts(model)[a].path : a \in DOMAIN entity_artifacts(model)}) = 8
    /\ \A a \in DOMAIN entity_artifacts(model) : entity_artifacts(model)[a].path \in DOMAIN fs

\* api.py has a router of the entity
HasRoute(model) ==
    \E k \in DOMAIN routers_of(fs[api_router_path]) :
        routers_of(fs[api_router_path])[k].router = model.lower_name

C24_FlaggedWithoutKeysReached ==
    /\ pc = "done"
    /\ \E m \in DOMAIN found_models :
          /\ found_models[m].is_link_table
          /\ found_models[m].foreign_keys = <<>>

\* the semantic type the priority integer > string > boolean > float >
\* timestamp gives a type text, string when none matches
ByPriority(text) ==
    IF contains(text, s_int) THEN "int"
    ELSE IF contains(text, s_str) THEN "str"
    ELSE IF contains(text, s_bool) THEN "bool"
    ELSE IF contains(text, s_float) THEN "float"
    ELSE IF contains(text, s_datetime) THEN "datetime"
    ELSE "str"

\* the declared type is an enumeration, or an optional one
IsEnumeration(annotation) == annotation.members # <<>>

\* the descriptor's type for a semantic type
Wrapped(field, semantic_type) ==
    IF field.required THEN semantic_type ELSE "Optional[" \o semantic_type \o "]"

\* C25: the semantic type is one of the five, found by testing the type text
\* in the order integer, string, boolean, float, timestamp, string when none
\* matches; an enumeration of string or integer values is flagged is_enum with
\* its member values and is a string; the type is wrapped as optional exactly
\* when the field is not required.
C25_SemanticTypeByPriority ==
    RegistryBuilt =>
        \A m \in DOMAIN found_models :
            \A p \in DOMAIN declared_class(found_models[m]).fields :
                LET field == declared_class(found_models[m]).fields[p]
                    descriptor == found_models[m].fields[p]
                IN IF IsEnumeration(field.annotation)
                   THEN /\ descriptor.is_enum
                        /\ descriptor.enum_values = field.annotation.members
                        /\ descriptor.type = Wrapped(field, "str")
                   ELSE /\ ~descriptor.is_enum
                        /\ descriptor.enum_values = <<>>
                        /\ descriptor.type = Wrapped(field, ByPriority(field.annotation.text))

SemanticTypes == {"int", "str", "bool", "float", "datetime"}

\* the semantic type of a descriptor, without the optional wrapping
Unwrapped(field, descriptor) ==
    CHOOSE t \in SemanticTypes : descriptor.type = Wrapped(field, t)

HasImageName(name) ==
    \/ \E suffix \in {s_suffix_image, s_suffix_img, s_suffix_photo} : endswith(name, suffix)
    \/ name \in {s_avatar, s_image, s_photo, s_logo}

HasFileName(name) ==
    \/ \E suffix \in {s_suffix_file, s_suffix_attachment} : endswith(name, suffix)
    \/ name \in {s_file, s_attachment}

\* the component annotation of a declared field, "None" without one
ComponentOf(field) ==
    LET site_props == field_site_props(field)
    IN IF "component" \in DOMAIN site_props THEN site_props.component ELSE "None"

\* C26: the ui type is the component annotation image or file when given;
\* else image for a string with an image name; else file for a string with a
\* file name; else the plain semantic type.  It is found on the unwrapped type.
C26_UiHint ==
    RegistryBuilt =>
        \A m \in DOMAIN found_models :
            \A p \in DOMAIN declared_class(found_models[m]).fields :
                LET field == declared_class(found_models[m]).fields[p]
                    descriptor == found_models[m].fields[p]
                    semantic == Unwrapped(field, descriptor)
                IN /\ \E t \in SemanticTypes : descriptor.type = Wrapped(field, t)
                   /\ descriptor.ui_type =
                         IF ComponentOf(field) \in {"image", "file"} THEN ComponentOf(field)
                         ELSE IF semantic = "str" /\ HasImageName(field.name) THEN "image"
                         ELSE IF semantic = "str" /\ HasFileName(field.name) THEN "file"
                         ELSE semantic
                   /\ (semantic # "str" /\ ComponentOf(field) \notin {"image", "file"})
                         => descriptor.ui_type \notin {"image", "file"}

\* a finished run on a class that declares avatar: Optional[str] without
\* annotation (an image of optional string type) and the string logo with the
\* component file (a file, although logo is an image name)
C26_Witness ==
    /\ pc = "done"
    /\ \E m \in DOMAIN found_models :
          LET model_cls == declared_class(found_models[m])
              fields == found_models[m].fields
          IN /\ Len(model_cls.fields) = 2
             /\ fields[1].name = s_avatar
             /\ ComponentOf(model_cls.fields[1]) = "None"
             /\ fields[1].ui_type = "image"
             /\ fields[1].type = "Optional[str]"
             /\ fields[2].name = s_logo
             /\ fields[2].type = "str"
             /\ fields[2].ui_type = "file"

\* a described integer field named photo keeps the plain type, and a float
\* with the component image is an image
C26_NonStringReached ==
    /\ RegistryBuilt
    /\ \E m \in DOMAIN found_models :
          /\ \E p \in DOMAIN found_models[m].fields :
                /\ found_models[m].fields[p].name = s_photo
                /\ found_models[m].fields[p].ui_type = "int"
          /\ \E p \in DOMAIN found_models[m].fields :
                /\ found_models[m].fields[p].type = "Optional[float]"
                /\ found_models[m].fields[p].ui_type = "image"

\* the generic template of each artifact kind: schema, data access, service,
\* endpoint, client service, client store, list view, detail view
ArtifactKinds ==
    <<"schema.py.j2", "crud.py.j2", "service.py.j2", "api.py.j2", "frontend_service.ts.j2",
      "frontend_store.ts.j2", "frontend_page_list.tsx.j2", "frontend_page_detail.tsx.j2">>

\* the kinds that have a template of their own for User
UserKinds == {"schema.py.j2", "crud.py.j2", "service.py.j2"}

\* the renderings of this run whose context is the descriptor at position m
RenderedFor(m) == SelectSeq(rendered, LAMBDA r : r.model = m)

\* C27: every non-link entity is rendered to exactly the eight artifact kinds,
\* each once in a run, with its descriptor as context; for User the schema,
\* data-access and service kinds use the user template and the other five the
\* generic one; for every other entity all eight use the generic template.  A
\* link table is rendered to none.
C27_EightArtifacts ==
    pc \in {"endpoints", "aggregate", "done"} =>
        /\ \A r \in DOMAIN rendered : rendered[r].model \in DOMAIN found_models
        /\ \A m \in DOMAIN found_models :
              IF found_models[m].is_link_table THEN RenderedFor(m) = <<>>
              ELSE /\ Len(RenderedFor(m)) = 8
                   /\ \A k \in 1..8 :
                         RenderedFor(m)[k].template =
                            IF found_models[m].name = s_User /\ ArtifactKinds[k] \in UserKinds
                            THEN "user_" \o ArtifactKinds[k]
                            ELSE ArtifactKinds[k]
                   /\ \A j, k \in 1..8 : j # k => RenderedFor(m)[j].path # RenderedFor(m)[k].path

\* a finished run whose registry holds User, another regular entity and a
\* link table
C27_Witness ==
    /\ pc = "done"
    /\ \E u, e, l \in DOMAIN found_models :
          /\ found_models[u].name = s_User
          /\ RenderedFor(u)[1].template = "user_schema.py.j2"
          /\ RenderedFor(u)[4].template = "api.py.j2"
          /\ found_models[e].name # s_User
          /\ ~found_models[e].is_link_table
          /\ RenderedFor(e)[1].template = "schema.py.j2"
          /\ found_models[l].is_link_table

\* the paths the eight artifacts of an entity are written to
ArtifactPathsOf(model) ==
    {entity_artifacts(model)[a].path : a \in DOMAIN entity_artifacts(model)}

\* the two endpoint files that are written for no entity
FixedEndpointPaths == {endpoint_path(s_upload), endpoint_path(s_login)}

\* C28: in one run no path is written for two purposes: two distinct non-link
\* entities share no artifact path, no endpoint file of an entity is upload.py
\* or login.py, and so every artifact is still there when the run is done.
C28_NoPathWrittenTwice ==
    RegistryBuilt =>
        /\ \A m, n \in DOMAIN found_models :
              ( /\ ~found_models[m].is_link_table
                /\ ~found_models[n].is_link_table
                /\ declared_class(found_models[m]) # declared_class(found_models[n]) )
              => ArtifactPathsOf(found_models[m]) \cap ArtifactPathsOf(found_models[n]) = {}
        /\ \A m \in DOMAIN found_models :
              ~found_models[m].is_link_table
              => endpoint_path(found_models[m].lower_name) \notin FixedEndpointPaths
        /\ pc = "done" =>
              \A r \in DOMAIN rendered :
                  /\ "template" \in DOMAIN fs[rendered[r].path]
                  /\ fs[rendered[r].path].template = rendered[r].template
                  /\ fs[rendered[r].path].context.model.name = found_models[rendered[r].model].name

\* a finished run whose endpoint file of the entity Login holds the copy of
\* the fixed login endpoint
C28_LoginOverwritten ==
    /\ pc = "done"
    /\ \E m \in DOMAIN found_models :
          /\ found_models[m].name = s_Login
          /\ fs[endpoint_path(found_models[m].lower_name)] = [copy_of |-> "endpoints/login.py"]

\* C29: sync_env_files is idempotent: for every initial content of the two
\* .env files and every configuration, a second call with the same
\* configuration leaves both files with the content the first call gave them.
C29_EnvSyncIdempotent ==
    (run >= 2 /\ pc # "start") =>
        /\ fs[backend_env_path] = fs_prev[backend_env_path]
        /\ fs[frontend_env_path] = fs_prev[frontend_env_path]

\* the second call has left backend/.env as the first call wrote it, for an
\* initial file that held comments, other keys and a managed key
C29_BackendUnchangedReached ==
    /\ run >= 2 /\ pc = "done"
    /\ env.backend_env.exists /\ Len(splitlines(env.backend_env.text)) = 3
    /\ fs[backend_env_path] = fs_prev[backend_env_path]

\* the lines of a file of the run, and of a file before the first run
LinesOf(path) == splitlines(fs[path])
InitialLines(file) == IF file.exists THEN splitlines(file.text) ELSE <<>>

\* a line that is no comment and assigns one of the managed keys
AssignsManagedKey(line) ==
    /\ \E c \in DOMAIN line : line[c] = "="
    /\ ~startswith(line, <<"#">>)
    /\ \E k \in DOMAIN new_keys_of(env.config) : new_keys_of(env.config)[k].key = key_of(line)

\* the line the configuration gives the key of a line
ConfiguredLine(line) ==
    LET entry == CHOOSE e \in {new_keys_of(env.config)[k] : k \in DOMAIN new_keys_of(env.config)} :
                    e.key = key_of(line)
    IN assignment(entry.key, entry.val)

\* C30: after sync_env_files, frontend/.env has a line VITE_API_URL=<api_url>
\* with the configured value, every line of backend/.env that assigns a
\* managed key carries the configured value, and the comment lines and the
\* lines of other keys are as they were, in order.
C30_EnvFilesCarryConfiguration ==
    pc # "start" =>
        /\ \E k \in DOMAIN LinesOf(frontend_env_path) :
              LinesOf(frontend_env_path)[k]
                 = assignment(s_VITE_API_URL, Get(env.config, "api_url", <<"/","a","p","i","/","v","1">>))
        /\ \A k \in DOMAIN LinesOf(backend_env_path) :
              AssignsManagedKey(LinesOf(backend_env_path)[k])
              => LinesOf(backend_env_path)[k] = ConfiguredLine(LinesOf(backend_env_path)[k])
        /\ Len(LinesOf(backend_env_path)) >= Len(InitialLines(env.backend_env))
        /\ \A k \in DOMAIN InitialLines(env.backend_env) :
              ~AssignsManagedKey(InitialLines(env.backend_env)[k])
              => LinesOf(backend_env_path)[k] = InitialLines(env.backend_env)[k]

\* a first call has replaced the old VITE_API_URL line of frontend/.env and
\* the old PROJECT_NAME line of backend/.env and kept the other lines
C30_UpdatedInPlaceReached ==
    /\ run = 1 /\ pc = "done"
    /\ env.frontend_env.exists /\ startswith(env.frontend_env.text, s_VITE_API_URL \o <<"=","h">>)
    /\ "api_url" \in DOMAIN env.config
    /\ LinesOf(frontend_env_path)[1] = assignment(s_VITE_API_URL, env.config.api_url)
    /\ LinesOf(frontend_env_path)[2] = InitialLines(env.frontend_env)[2]
    /\ Len(InitialLines(env.backend_env)) = 3
    /\ LinesOf(backend_env_path)[1] = InitialLines(env.backend_env)[1]
    /\ LinesOf(backend_env_path)[2] = assignment(s_PROJECT_NAME, env.config.project_name)
    /\ Len(LinesOf(backend_env_path)) = 8

====
